---- MODULE Spec2Model ----
(***************************************************************************)
(* State-machine model of the AURELIUS runtime core:                       *)
(*   - AureliusDataClient (db/redis_client.py): key-value store with a     *)
(*     Redis primary and a local JSON-file fallback;                       *)
(*   - AureliusRateLimiter (utils/rate_limit.py): bucketed usage counters  *)
(*     kept in that store.                                                 *)
(* Text (JSON documents, Redis strings) is a sequence of one-character     *)
(* strings, so that encoding and parsing are computed, not assumed.        *)
(***************************************************************************)
EXTENDS Integers, Sequences, FiniteSets, TLC

(***************************************************************************)
(* Bounds of the model.                                                    *)
(***************************************************************************)
\* last instant of the store scenario's clock (seconds)
MaxTime == 3
\* largest expire argument passed to set() in the store scenario
MaxExpire == 2
\* largest counter value increment() is asked to pass in the store scenario
MaxStoreCount == 3
\* connection_attempts beyond which connect() is not called again
MaxAttempts == 4
\* how far past the platform's default hourly limit a single caller drives a counter
MaxOver == 1
\* the largest value concurrent callers drive a counter to
MaxConcCount == 2
\* the most errors accumulated in system_status before a health check
MaxErrors == 11
\* the most signals the process receives
MaxSignals == 1
\* the most cycles a task loop starts
MaxCycles == 2
\* the most closes that fail in one shutdown
MaxCloseFailures == 1
\* the most calls one concurrent caller of the local store completes
MaxLocalCalls == 2

(***************************************************************************)
(* Python values.  One record shape for all of them, so that any two can   *)
(* be compared: t is the type tag, n an int, s a str (text), e the items   *)
(* of a list or dict (for a dict each item carries its key k).             *)
(***************************************************************************)
PyNone == [t |-> "none", n |-> 0, s |-> <<>>, e |-> <<>>]

PyInt(n) == [t |-> "int", n |-> n, s |-> <<>>, e |-> <<>>]

PyStr(s) == [t |-> "str", n |-> 0, s |-> s, e |-> <<>>]

PyList(items) == [t |-> "list", n |-> 0, s |-> <<>>, e |-> items]

PyTuple(items) == [t |-> "tuple", n |-> 0, s |-> <<>>, e |-> items]

PyDict(items) == [t |-> "dict", n |-> 0, s |-> <<>>, e |-> items]

\* an element of a list (k unused) or an entry of a dict
Item(k, v) == [k |-> k, v |-> v]

\* Python truthiness, as used by `x or 0`, `x or {}` and `if expire`
Truthy(v) ==
    CASE v.t = "none" -> FALSE
      [] v.t = "int"  -> v.n # 0
      [] v.t = "str"  -> v.s # <<>>
      [] OTHER        -> v.e # <<>>

\* dict lookup: hash_data.get(field)
DictGet(d, f) ==
    IF \E i \in 1..Len(d.e) : d.e[i].k = f
    THEN d.e[CHOOSE i \in 1..Len(d.e) : d.e[i].k = f].v
    ELSE PyNone

\* dict assignment: hash_data[field] = value (insertion order kept)
DictSet(d, f, v) ==
    IF \E i \in 1..Len(d.e) : d.e[i].k = f
    THEN PyDict([i \in 1..Len(d.e) |-> IF d.e[i].k = f THEN Item(f, v) ELSE d.e[i]])
    ELSE PyDict(Append(d.e, Item(f, v)))

(***************************************************************************)
(* json.dumps and json.loads on the values above (ints >= 0, strings,       *)
(* flat lists and dicts of scalars).                                       *)
(***************************************************************************)
DIGITS == <<"0", "1", "2", "3", "4", "5", "6", "7", "8", "9">>

Quote == "\""

RECURSIVE Digits(_)
Digits(n) ==
    IF n < 10 THEN <<DIGITS[n + 1]>>
    ELSE Digits(n \div 10) \o <<DIGITS[(n % 10) + 1]>>

Backslash == "\\"

\* a string's characters with quote and backslash escaped
RECURSIVE Escape(_)
Escape(txt) ==
    IF Len(txt) = 0 THEN <<>>
    ELSE (IF Head(txt) \in {Quote, Backslash} THEN <<Backslash, Head(txt)>>
          ELSE <<Head(txt)>>) \o Escape(Tail(txt))

DumpsScalar(v) ==
    CASE v.t = "int" -> Digits(v.n)
      [] v.t = "str" -> <<Quote>> \o Escape(v.s) \o <<Quote>>
      [] OTHER       -> <<"n", "u", "l", "l">>

DumpsItem(it, isDict) ==
    (IF isDict THEN <<Quote>> \o it.k \o <<Quote, ":", " ">> ELSE <<>>)
        \o DumpsScalar(it.v)

RECURSIVE DumpsItems(_, _)
DumpsItems(items, isDict) ==
    IF Len(items) = 0 THEN <<>>
    ELSE IF Len(items) = 1 THEN DumpsItem(items[1], isDict)
    ELSE DumpsItem(items[1], isDict) \o <<",", " ">>
             \o DumpsItems(Tail(items), isDict)

json_dumps(v) ==
    CASE v.t = "list" -> <<"[">> \o DumpsItems(v.e, FALSE) \o <<"]">>
      [] v.t = "dict" -> <<"{">> \o DumpsItems(v.e, TRUE) \o <<"}">>
      [] OTHER        -> DumpsScalar(v)

IsDigit(c) == \E i \in 1..10 : DIGITS[i] = c

DigitVal(c) == (CHOOSE i \in 1..10 : DIGITS[i] = c) - 1

IsNumber(txt) ==
    /\ Len(txt) >= 1
    /\ \A i \in 1..Len(txt) : IsDigit(txt[i])
    /\ (Len(txt) > 1 => txt[1] # "0")

RECURSIVE NumVal(_)
NumVal(txt) ==
    IF Len(txt) = 0 THEN 0
    ELSE NumVal(SubSeq(txt, 1, Len(txt) - 1)) * 10 + DigitVal(txt[Len(txt)])

\* the characters of an escaped string body; ok = FALSE when a quote stands
\* unescaped in it or a backslash escapes nothing
RECURSIVE Unescape(_)
Unescape(txt) ==
    IF Len(txt) = 0 THEN [ok |-> TRUE, s |-> <<>>]
    ELSE IF Head(txt) = Quote THEN [ok |-> FALSE, s |-> <<>>]
    ELSE IF Head(txt) = Backslash
    THEN IF Len(txt) >= 2 /\ txt[2] \in {Quote, Backslash}
         THEN LET r == Unescape(SubSeq(txt, 3, Len(txt))) IN
              [ok |-> r.ok, s |-> <<txt[2]>> \o r.s]
         ELSE [ok |-> FALSE, s |-> <<>>]
    ELSE LET r == Unescape(Tail(txt)) IN
         [ok |-> r.ok, s |-> <<Head(txt)>> \o r.s]

IsQuoted(txt) ==
    /\ Len(txt) >= 2
    /\ txt[1] = Quote
    /\ txt[Len(txt)] = Quote
    /\ Unescape(SubSeq(txt, 2, Len(txt) - 1)).ok

Unquote(txt) == Unescape(SubSeq(txt, 2, Len(txt) - 1)).s

RECURSIVE StripLeft(_)
StripLeft(txt) ==
    IF Len(txt) > 0 /\ txt[1] = " " THEN StripLeft(Tail(txt)) ELSE txt

RECURSIVE StripRight(_)
StripRight(txt) ==
    IF Len(txt) > 0 /\ txt[Len(txt)] = " "
    THEN StripRight(SubSeq(txt, 1, Len(txt) - 1)) ELSE txt

Strip(txt) == StripRight(StripLeft(txt))

\* txt cut at every sep that stands outside a string literal
RECURSIVE SplitTop(_, _, _, _)
SplitTop(rest, sep, cur, inq) ==
    IF Len(rest) = 0 THEN <<cur>>
    ELSE LET c == Head(rest) IN
         IF c = sep /\ ~inq
         THEN <<cur>> \o SplitTop(Tail(rest), sep, <<>>, FALSE)
         ELSE IF c = Backslash /\ inq /\ Len(rest) >= 2
         THEN SplitTop(Tail(Tail(rest)), sep, cur \o <<c, rest[2]>>, inq)
         ELSE SplitTop(Tail(rest), sep, Append(cur, c),
                       IF c = Quote THEN ~inq ELSE inq)

\* the result of a parse: ok = FALSE is json.JSONDecodeError
ParseOk(v) == [ok |-> TRUE, v |-> v]

ParseFail == [ok |-> FALSE, v |-> PyNone]

\* a scalar document, its surrounding blanks stripped
ScalarOf(txt) ==
    IF IsNumber(txt) THEN ParseOk(PyInt(NumVal(txt)))
    ELSE IF IsQuoted(txt) THEN ParseOk(PyStr(Unquote(txt)))
    ELSE IF txt = <<"n", "u", "l", "l">> THEN ParseOk(PyNone)
    ELSE ParseFail

ParseScalar(raw) == ScalarOf(Strip(raw))

\* the list element that the parse p of its text gives
ListItemOf(p) == [ok |-> p.ok, it |-> Item(<<>>, p.v)]

ParseListItem(raw) == ListItemOf(ParseScalar(raw))

\* the dict entry with key text key and value parse p
DictItemOf(key, p) ==
    IF IsQuoted(key) /\ p.ok
    THEN [ok |-> TRUE, it |-> Item(Unquote(key), p.v)]
    ELSE [ok |-> FALSE, it |-> Item(<<>>, PyNone)]

\* the dict entry whose text the top-level colons cut into parts
DictItemOfParts(parts) ==
    IF Len(parts) = 2
    THEN DictItemOf(Strip(parts[1]), ParseScalar(parts[2]))
    ELSE [ok |-> FALSE, it |-> Item(<<>>, PyNone)]

ParseDictItem(raw) == DictItemOfParts(SplitTop(raw, ":", <<>>, FALSE))

\* the items parsed, ok when every one is
CollectItems(parsed) ==
    [ok    |-> \A i \in 1..Len(parsed) : parsed[i].ok,
     items |-> [i \in 1..Len(parsed) |-> parsed[i].it]]

\* the items whose texts the top-level commas cut into parts
ItemsOfParts(parts, isDict) ==
    CollectItems([i \in 1..Len(parts) |->
                     IF isDict THEN ParseDictItem(parts[i])
                     ELSE ParseListItem(parts[i])])

ParseItems(inner, isDict) ==
    IF Strip(inner) = <<>> THEN [ok |-> TRUE, items |-> <<>>]
    ELSE ItemsOfParts(SplitTop(inner, ",", <<>>, FALSE), isDict)

\* the list or dict that the parse r of its items gives
Container(r, isDict) ==
    IF r.ok THEN ParseOk(IF isDict THEN PyDict(r.items) ELSE PyList(r.items))
    ELSE ParseFail

\* a document, its surrounding blanks stripped
DocumentOf(txt) ==
    IF Len(txt) >= 2 /\ txt[1] = "[" /\ txt[Len(txt)] = "]"
    THEN Container(ParseItems(SubSeq(txt, 2, Len(txt) - 1), FALSE), FALSE)
    ELSE IF Len(txt) >= 2 /\ txt[1] = "{" /\ txt[Len(txt)] = "}"
    THEN Container(ParseItems(SubSeq(txt, 2, Len(txt) - 1), TRUE), TRUE)
    ELSE ScalarOf(txt)

json_loads(raw) == DocumentOf(Strip(raw))

(***************************************************************************)
(* The store: AureliusDataClient.  A store value S is the object's fields  *)
(* together with the two backends it writes: the Redis server's keyspace   *)
(* (redis) and the fallback directory (files).                             *)
(***************************************************************************)
\* Python's None where an int is expected (expire, expires_at, a Redis TTL)
NoExpiry == -1

max_connection_attempts == 3

\* __init__: no client, use_redis False, no attempt made; redis_url given or not
NewClient(url) ==
    [redis_url           |-> url,
     redis_client        |-> FALSE,
     use_redis           |-> FALSE,
     connection_attempts |-> 0,
     redis               |-> <<>>,
     files               |-> <<>>]

\* f with key k removed
Without(f, k) == [x \in DOMAIN f \ {k} |-> f[x]]

\* f with key k bound to v
With(f, k, v) == (k :> v) @@ f

\* what a call returns: the store after it, the return value (ks for a list
\* of keys), the backends it touched in order, and whether the primary raised
Res(S, ret, ks, path, raised) ==
    [S |-> S, ret |-> ret, ks |-> ks, path |-> path, raised |-> raised]

\* the result r of a local method, returned by the except branch of the
\* public one
Relay(r) == Res(r.S, r.ret, {}, <<"redis", "local">>, TRUE)

PyBool(b) == [t |-> "bool", n |-> IF b THEN 1 ELSE 0, s |-> <<>>, e |-> <<>>]

\* int(x): ok = FALSE is ValueError / TypeError
PyToInt(v) ==
    CASE v.t = "int"  -> [ok |-> TRUE, n |-> v.n]
      [] v.t = "bool" -> [ok |-> TRUE, n |-> v.n]
      [] v.t = "str"  ->
            IF Len(v.s) >= 1 /\ \A i \in 1..Len(v.s) : IsDigit(v.s[i])
            THEN [ok |-> TRUE, n |-> NumVal(v.s)]
            ELSE [ok |-> FALSE, n |-> 0]
      [] OTHER        -> [ok |-> FALSE, n |-> 0]

(***************************************************************************)
(* Local fallback methods.  A file holds the JSON document                 *)
(* {value, created_at, expires_at}; created_at is written and never read,  *)
(* and is left out of the file's model.                                    *)
(***************************************************************************)
_set_local(S, key, value, expire, t) ==
    LET data == [value      |-> json_dumps(value),
                 expires_at |-> IF expire # NoExpiry /\ expire # 0
                                THEN t + expire ELSE NoExpiry]
    IN Res([S EXCEPT !.files = With(S.files, key, data)],
           PyBool(TRUE), {}, <<"local">>, FALSE)

_delete_local(S, key) ==
    Res([S EXCEPT !.files = Without(S.files, key)],
        PyBool(TRUE), {}, <<"local">>, FALSE)

\* _get_local once the file is read: p is the parse of its value
_get_local_read(S, key, t, expires_at, p) ==
    IF ~p.ok
    THEN Res(S, PyNone, {}, <<"local">>, FALSE)
    ELSE IF expires_at # NoExpiry /\ t > expires_at
    THEN Res(_delete_local(S, key).S, PyNone, {}, <<"local">>, FALSE)
    ELSE Res(S, p.v, {}, <<"local">>, FALSE)

\* _get_local without the comparison of the clock with expires_at
_get_local_unexpiring(S, key, t) ==
    IF key \notin DOMAIN S.files
    THEN Res(S, PyNone, {}, <<"local">>, FALSE)
    ELSE _get_local_read(S, key, t, NoExpiry, json_loads(S.files[key].value))

_get_local(S, key, t) ==
    IF key \notin DOMAIN S.files
    THEN Res(S, PyNone, {}, <<"local">>, FALSE)
    ELSE _get_local_read(S, key, t, S.files[key].expires_at,
                         json_loads(S.files[key].value))

_exists_local(S, key) ==
    Res(S, PyBool(key \in DOMAIN S.files), {}, <<"local">>, FALSE)

\* key.startswith(prefix); no key of the model is a proper prefix of another
StartsWith(key, prefix) == key = prefix

_keys_local(S, pattern) ==
    Res(S, PyNone,
        {k \in DOMAIN S.files : pattern = "*" \/ StartsWith(k, pattern)},
        <<"local">>, FALSE)

\* _increment_local's write of int(current_value) + amount; cur.ok = FALSE
\* is int() raising
_increment_local_set(S, key, cur, amount, t) ==
    IF ~cur.ok
    THEN Res(S, PyInt(0), {}, <<"local">>, FALSE)
    ELSE Res(_set_local(S, key, PyInt(cur.n + amount), NoExpiry, t).S,
             PyInt(cur.n + amount), {}, <<"local">>, FALSE)

\* the write half of _increment_local, given the value its read returned
_increment_local_write(S, key, current, amount, t) ==
    _increment_local_set(S, key,
        IF Truthy(current) THEN PyToInt(current) ELSE [ok |-> TRUE, n |-> 0],
        amount, t)

\* _increment_local after its read r
_increment_local_after(r, key, amount, t) ==
    _increment_local_write(r.S, key, r.ret, amount, t)

_increment_local(S, key, amount, t) ==
    _increment_local_after(_get_local(S, key, t), key, amount, t)

\* _set_hash_local's write of hash_data with the field set
_set_hash_local_set(S, key, hash_data, field, value, t) ==
    IF hash_data.t # "dict"
    THEN Res(S, PyBool(FALSE), {}, <<"local">>, FALSE)
    ELSE _set_local(S, key, DictSet(hash_data, field, value), NoExpiry, t)

\* the write half of _set_hash_local, given the value its read returned
_set_hash_local_write(S, key, current, field, value, t) ==
    _set_hash_local_set(S, key, IF Truthy(current) THEN current ELSE PyDict(<<>>),
                        field, value, t)

\* _set_hash_local after its read r
_set_hash_local_after(r, key, field, value, t) ==
    _set_hash_local_write(r.S, key, r.ret, field, value, t)

_set_hash_local(S, key, field, value, t) ==
    _set_hash_local_after(_get_local(S, key, t), key, field, value, t)

\* hash_data.get(field) on what _get_local returned, or on {}
_get_hash_local_field(S, hash_data, field) ==
    Res(S, IF hash_data.t = "dict" THEN DictGet(hash_data, field) ELSE PyNone,
        {}, <<"local">>, FALSE)

\* _get_hash_local after its read r
_get_hash_local_after(r, field) ==
    _get_hash_local_field(r.S, IF Truthy(r.ret) THEN r.ret ELSE PyDict(<<>>), field)

_get_hash_local(S, key, field, t) ==
    _get_hash_local_after(_get_local(S, key, t), field)

\* _get_all_hash_local after its read r
_get_all_hash_local_after(r) ==
    Res(r.S, IF Truthy(r.ret) THEN r.ret ELSE PyDict(<<>>), {}, <<"local">>, FALSE)

_get_all_hash_local(S, key, t) == _get_all_hash_local_after(_get_local(S, key, t))

(***************************************************************************)
(* The primary: the commands the client sends to the Redis server.  A key  *)
(* holds a string (text) or a hash (h: field -> text) and an expiry time   *)
(* (exp); a key whose expiry has passed is gone.  err = TRUE is the        *)
(* server's error reply, which the client library raises.                  *)
(***************************************************************************)
RedisLive(S, key, t) ==
    /\ key \in DOMAIN S.redis
    /\ (S.redis[key].exp = NoExpiry \/ t < S.redis[key].exp)

RedisString(text, exp) == [kind |-> "string", text |-> text, h |-> <<>>, exp |-> exp]

RedisHash(h, exp) == [kind |-> "hash", text |-> <<>>, h |-> h, exp |-> exp]

\* the library's encoding of a command argument; ok = FALSE is DataError
WireText(v) ==
    CASE v.t = "str" -> [ok |-> TRUE, text |-> v.s]
      [] v.t = "int" -> [ok |-> TRUE, text |-> Digits(v.n)]
      [] OTHER       -> [ok |-> FALSE, text |-> <<>>]

\* the parsed reply, or the raw string when p is json.JSONDecodeError
FromParse(p, text) == IF p.ok THEN p.v ELSE PyStr(text)

\* the client's reading of a reply: json.loads, the raw string if that fails
FromWire(text) == FromParse(json_loads(text), text)

\* hash items with field f bound to text x
HSetField(h, f, x) ==
    IF \E i \in 1..Len(h) : h[i].k = f
    THEN [i \in 1..Len(h) |-> IF h[i].k = f THEN Item(f, x) ELSE h[i]]
    ELSE Append(h, Item(f, x))

(***************************************************************************)
(* Public operations.  Each takes the store, the call's arguments, the     *)
(* time t of the call and fail: whether the primary raises during this     *)
(* call (connection reset, timeout).                                       *)
(***************************************************************************)
Connected(S) == S.use_redis /\ S.redis_client

\* set on the primary, value being what is sent and w its encoding
set_primary(S, key, value, w, expire, t, fail) ==
    IF fail \/ ~w.ok \/ expire = 0
    THEN Relay(_set_local(S, key, value, expire, t))
    ELSE Res([S EXCEPT !.redis = With(S.redis, key,
                  RedisString(w.text, IF expire = NoExpiry THEN NoExpiry
                                      ELSE t + expire))],
             PyBool(TRUE), {}, <<"redis">>, FALSE)

\* set on the primary once a dict or list is replaced by its JSON text
set_dumped(S, key, value, expire, t, fail) ==
    set_primary(S, key, value, WireText(value), expire, t, fail)

set(S, key, value, expire, t, fail) ==
    IF Connected(S)
    THEN set_dumped(S, key,
                    IF value.t \in {"dict", "list"}
                    THEN PyStr(json_dumps(value)) ELSE value,
                    expire, t, fail)
    ELSE _set_local(S, key, value, expire, t)

get(S, key, t, fail) ==
    IF Connected(S)
    THEN IF fail \/ (RedisLive(S, key, t) /\ S.redis[key].kind # "string")
         THEN Relay(_get_local(S, key, t))
         ELSE IF ~RedisLive(S, key, t)
         THEN Res(S, PyNone, {}, <<"redis">>, FALSE)
         ELSE Res(S, FromWire(S.redis[key].text), {}, <<"redis">>, FALSE)
    ELSE _get_local(S, key, t)

delete(S, key, t, fail) ==
    IF Connected(S)
    THEN IF fail
         THEN Relay(_delete_local(S, key))
         ELSE Res([S EXCEPT !.redis = Without(S.redis, key)],
                  PyBool(RedisLive(S, key, t)), {}, <<"redis">>, FALSE)
    ELSE _delete_local(S, key)

exists(S, key, t, fail) ==
    IF Connected(S)
    THEN IF fail
         THEN Res(S, PyBool(FALSE), {}, <<"redis">>, TRUE)
         ELSE Res(S, PyBool(RedisLive(S, key, t)), {}, <<"redis">>, FALSE)
    ELSE _exists_local(S, key)

keys(S, pattern, t, fail) ==
    IF Connected(S)
    THEN IF fail
         THEN Res(S, PyNone, {}, <<"redis">>, TRUE)
         ELSE Res(S, PyNone,
                  {k \in DOMAIN S.redis :
                      RedisLive(S, k, t) /\ (pattern = "*" \/ k = pattern)},
                  <<"redis">>, FALSE)
    ELSE _keys_local(S, pattern)

increment(S, key, amount, t, fail) ==
    IF Connected(S)
    THEN LET live == RedisLive(S, key, t)
             old  == IF live THEN S.redis[key] ELSE RedisString(<<"0">>, NoExpiry)
             bad  == old.kind # "string" \/ ~IsNumber(old.text)
         IN IF fail \/ bad
            THEN Res(S, PyInt(0), {}, <<"redis">>, TRUE)
            ELSE Res([S EXCEPT !.redis = With(S.redis, key,
                          RedisString(Digits(NumVal(old.text) + amount), old.exp))],
                     PyInt(NumVal(old.text) + amount), {}, <<"redis">>, FALSE)
    ELSE _increment_local(S, key, amount, t)

\* hset on the primary, w being the encoding of the value sent
set_hash_primary(S, key, field, w, t, fail) ==
    LET live == RedisLive(S, key, t)
        old  == IF live THEN S.redis[key] ELSE RedisHash(<<>>, NoExpiry)
    IN IF fail \/ ~w.ok \/ old.kind # "hash"
       THEN Res(S, PyBool(FALSE), {}, <<"redis">>, TRUE)
       ELSE Res([S EXCEPT !.redis = With(S.redis, key,
                     RedisHash(HSetField(old.h, field, w.text), old.exp))],
                PyBool(TRUE), {}, <<"redis">>, FALSE)

set_hash(S, key, field, value, t, fail) ==
    IF Connected(S)
    THEN set_hash_primary(S, key, field,
                          WireText(IF value.t \in {"dict", "list"}
                                   THEN PyStr(json_dumps(value)) ELSE value),
                          t, fail)
    ELSE _set_hash_local(S, key, field, value, t)

get_hash(S, key, field, t, fail) ==
    IF Connected(S)
    THEN LET live == RedisLive(S, key, t)
             old  == IF live THEN S.redis[key] ELSE RedisHash(<<>>, NoExpiry)
         IN IF fail \/ old.kind # "hash"
            THEN Res(S, PyNone, {}, <<"redis">>, TRUE)
            ELSE IF \E i \in 1..Len(old.h) : old.h[i].k = field
            THEN Res(S, FromWire(old.h[CHOOSE i \in 1..Len(old.h) :
                                           old.h[i].k = field].v),
                     {}, <<"redis">>, FALSE)
            ELSE Res(S, PyNone, {}, <<"redis">>, FALSE)
    ELSE _get_hash_local(S, key, field, t)

get_all_hash(S, key, t, fail) ==
    IF Connected(S)
    THEN LET live == RedisLive(S, key, t)
             old  == IF live THEN S.redis[key] ELSE RedisHash(<<>>, NoExpiry)
         IN IF fail \/ old.kind # "hash"
            THEN Res(S, PyDict(<<>>), {}, <<"redis">>, TRUE)
            ELSE Res(S, PyDict([i \in 1..Len(old.h) |->
                                   Item(old.h[i].k, FromWire(old.h[i].v))]),
                     {}, <<"redis">>, FALSE)
    ELSE _get_all_hash_local(S, key, t)

(***************************************************************************)
(* The same operations with their try statements spelled out, under a      *)
(* local store whose file operations raise (io).  A block ends by          *)
(* returning or by an exception leaving it (exc); done tells whether a     *)
(* backend carried the operation out.                                      *)
(***************************************************************************)
Raise(S) == [S |-> S, ret |-> PyNone, ks |-> {}, exc |-> TRUE, done |-> FALSE]

Return(S, ret, ks, done) == [S |-> S, ret |-> ret, ks |-> ks, exc |-> FALSE, done |-> done]

\* the result r of an operation whose file operations do not raise
Done(r) == Return(r.S, r.ret, r.ks, TRUE)

\* try: body / except Exception: handler
Try(body, handler) == IF body.exc THEN handler ELSE body

\* the try block of a public operation on the primary: r.raised is the
\* exception that leaves it
OnPrimary(S, r) == IF r.raised THEN Raise(S) ELSE Done(r)

_set_local_try(S, key, value, expire, t, io) ==
    Try(IF io THEN Raise(S) ELSE Done(_set_local(S, key, value, expire, t)),
        Return(S, PyBool(FALSE), {}, FALSE))

_get_local_try(S, key, t, io) ==
    Try(IF io THEN Raise(S) ELSE Done(_get_local(S, key, t)),
        Return(S, PyNone, {}, FALSE))

_delete_local_try(S, key, io) ==
    Try(IF io THEN Raise(S) ELSE Done(_delete_local(S, key)),
        Return(S, PyBool(FALSE), {}, FALSE))

\* _exists_local has no try statement of its own
_exists_local_try(S, key, io) ==
    IF io THEN Raise(S) ELSE Done(_exists_local(S, key))

_keys_local_try(S, pattern, io) ==
    Try(IF io THEN Raise(S) ELSE Done(_keys_local(S, pattern)),
        Return(S, PyNone, {}, FALSE))

\* _increment_local after its write w of new_value: the write's result is
\* not looked at
_increment_local_wrote(w, new_value, read_done) ==
    Return(w.S, PyInt(new_value), {}, read_done /\ w.done)

\* _increment_local once current_value is converted
_increment_local_int(S, key, cur, amount, t, io, read_done) ==
    IF ~cur.ok THEN Raise(S)
    ELSE _increment_local_wrote(
             _set_local_try(S, key, PyInt(cur.n + amount), NoExpiry, t, io),
             cur.n + amount, read_done)

\* _increment_local after its read g
_increment_local_read(g, key, amount, t, io) ==
    _increment_local_int(g.S, key,
        IF Truthy(g.ret) THEN PyToInt(g.ret) ELSE [ok |-> TRUE, n |-> 0],
        amount, t, io, g.done)

_increment_local_try(S, key, amount, t, io) ==
    Try(_increment_local_read(_get_local_try(S, key, t, io), key, amount, t, io),
        Return(S, PyInt(0), {}, FALSE))

\* _set_hash_local after its read g: hash_data[field] = value raises
\* unless hash_data is a dict
_set_hash_local_read(g, key, field, value, t, io) ==
    IF Truthy(g.ret) /\ g.ret.t # "dict" THEN Raise(g.S)
    ELSE _set_local_try(g.S, key,
                        DictSet(IF Truthy(g.ret) THEN g.ret ELSE PyDict(<<>>),
                                field, value),
                        NoExpiry, t, io)

_set_hash_local_try(S, key, field, value, t, io) ==
    Try(_set_hash_local_read(_get_local_try(S, key, t, io), key, field, value, t, io),
        Return(S, PyBool(FALSE), {}, FALSE))

\* _get_hash_local after its read g: hash_data.get raises unless
\* hash_data is a dict
_get_hash_local_read(g, field) ==
    IF Truthy(g.ret) /\ g.ret.t # "dict" THEN Raise(g.S)
    ELSE Return(g.S, IF Truthy(g.ret) THEN DictGet(g.ret, field) ELSE PyNone,
                {}, g.done)

_get_hash_local_try(S, key, field, t, io) ==
    Try(_get_hash_local_read(_get_local_try(S, key, t, io), field),
        Return(S, PyNone, {}, FALSE))

\* _get_all_hash_local after its read g
_get_all_hash_local_read(g) ==
    Return(g.S, IF Truthy(g.ret) THEN g.ret ELSE PyDict(<<>>), {}, g.done)

_get_all_hash_local_try(S, key, t, io) ==
    Try(_get_all_hash_local_read(_get_local_try(S, key, t, io)),
        Return(S, PyDict(<<>>), {}, FALSE))

\* set, get and delete: the except branch calls the local method when
\* use_redis is set, and returns the sentinel otherwise
set_try(S, key, value, expire, t, fail, io) ==
    Try(IF Connected(S)
        THEN OnPrimary(S, set(S, key, value, expire, t, fail))
        ELSE _set_local_try(S, key, value, expire, t, io),
        IF S.use_redis
        THEN _set_local_try(S, key,
                            IF value.t \in {"dict", "list"}
                            THEN PyStr(json_dumps(value)) ELSE value,
                            expire, t, io)
        ELSE Return(S, PyBool(FALSE), {}, FALSE))

get_try(S, key, t, fail, io) ==
    Try(IF Connected(S)
        THEN OnPrimary(S, get(S, key, t, fail))
        ELSE _get_local_try(S, key, t, io),
        IF S.use_redis
        THEN _get_local_try(S, key, t, io)
        ELSE Return(S, PyNone, {}, FALSE))

delete_try(S, key, t, fail, io) ==
    Try(IF Connected(S)
        THEN OnPrimary(S, delete(S, key, t, fail))
        ELSE _delete_local_try(S, key, io),
        IF S.use_redis
        THEN _delete_local_try(S, key, io)
        ELSE Return(S, PyBool(FALSE), {}, FALSE))

\* the other operations: the except branch returns the sentinel
exists_try(S, key, t, fail, io) ==
    Try(IF Connected(S)
        THEN OnPrimary(S, exists(S, key, t, fail))
        ELSE _exists_local_try(S, key, io),
        Return(S, PyBool(FALSE), {}, FALSE))

keys_try(S, pattern, t, fail, io) ==
    Try(IF Connected(S)
        THEN OnPrimary(S, keys(S, pattern, t, fail))
        ELSE _keys_local_try(S, pattern, io),
        Return(S, PyNone, {}, FALSE))

increment_try(S, key, amount, t, fail, io) ==
    Try(IF Connected(S)
        THEN OnPrimary(S, increment(S, key, amount, t, fail))
        ELSE _increment_local_try(S, key, amount, t, io),
        Return(S, PyInt(0), {}, FALSE))

set_hash_try(S, key, field, value, t, fail, io) ==
    Try(IF Connected(S)
        THEN OnPrimary(S, set_hash(S, key, field, value, t, fail))
        ELSE _set_hash_local_try(S, key, field, value, t, io),
        Return(S, PyBool(FALSE), {}, FALSE))

get_hash_try(S, key, field, t, fail, io) ==
    Try(IF Connected(S)
        THEN OnPrimary(S, get_hash(S, key, field, t, fail))
        ELSE _get_hash_local_try(S, key, field, t, io),
        Return(S, PyNone, {}, FALSE))

get_all_hash_try(S, key, t, fail, io) ==
    Try(IF Connected(S)
        THEN OnPrimary(S, get_all_hash(S, key, t, fail))
        ELSE _get_all_hash_local_try(S, key, t, io),
        Return(S, PyDict(<<>>), {}, FALSE))

(***************************************************************************)
(* The rate limiter: AureliusRateLimiter.  The clock counts seconds from   *)
(* Monday 2024-01-01 00:00:00 local time.                                  *)
(***************************************************************************)
\* a platform's limits: the entries of its dict, in insertion order
Limit(period, limit) == [period |-> period, limit |-> limit]

\* __init__: platform_limits
DefaultLimits ==
    [twitter  |-> <<Limit("hourly", 5), Limit("daily", 50)>>,
     mastodon |-> <<Limit("hourly", 10), Limit("daily", 100)>>,
     discord  |-> <<Limit("hourly", 20), Limit("daily", 200)>>]

\* platform.lower()
lower(platform) ==
    CASE platform = "Twitter"  -> "twitter"
      [] platform = "Mastodon" -> "mastodon"
      [] platform = "Discord"  -> "discord"
      [] OTHER                 -> platform

\* period in self.platform_limits[platform]
Configured(limits, platform, period) ==
    /\ platform \in DOMAIN limits
    /\ \E i \in 1..Len(limits[platform]) : limits[platform][i].period = period

\* self.platform_limits[platform][period]
LimitOf(limits, platform, period) ==
    limits[platform][CHOOSE i \in 1..Len(limits[platform]) :
                         limits[platform][i].period = period].limit

\* list(self.platform_limits[platform].keys())
PeriodsOf(limits, platform) ==
    [i \in 1..Len(limits[platform]) |-> limits[platform][i].period]

\* dict.update on one platform's limits
RECURSIVE UpdateLimits(_, _)
UpdateLimits(entries, new) ==
    IF Len(new) = 0 THEN entries
    ELSE LET n == Head(new)
             e == IF \E i \in 1..Len(entries) : entries[i].period = n.period
                  THEN [i \in 1..Len(entries) |->
                           IF entries[i].period = n.period THEN n ELSE entries[i]]
                  ELSE Append(entries, n)
         IN UpdateLimits(e, Tail(new))

update_platform_limits(limits, platform, new) ==
    LET pl   == lower(platform)
        base == IF pl \in DOMAIN limits THEN limits[pl] ELSE <<>>
    IN (pl :> UpdateLimits(base, new)) @@ limits

IsLeap(y) == (y % 4 = 0 /\ y % 100 # 0) \/ y % 400 = 0

DaysInYear(y) == IF IsLeap(y) THEN 366 ELSE 365

DaysInMonth(y, m) ==
    IF m = 2 THEN (IF IsLeap(y) THEN 29 ELSE 28)
    ELSE IF m \in {4, 6, 9, 11} THEN 30 ELSE 31

\* the year and the day of the year (from 0) of day d counted from 1 January of y
RECURSIVE YearFrom(_, _)
YearFrom(d, y) ==
    IF d < DaysInYear(y) THEN [year |-> y, yday |-> d]
    ELSE YearFrom(d - DaysInYear(y), y + 1)

\* the month and the day of the month of day d counted from the 1st of month m
RECURSIVE MonthFrom(_, _, _)
MonthFrom(y, m, d) ==
    IF d < DaysInMonth(y, m) THEN [month |-> m, day |-> d + 1]
    ELSE MonthFrom(y, m + 1, d - DaysInMonth(y, m))

\* the datetime of clock value t; weekday() is 0 on Monday
\* the date of day d, yr being its year and day of the year
DateOf(t, d, yr, md) ==
    [year |-> yr.year, month |-> md.month, day |-> md.day, yday |-> yr.yday,
     hour |-> (t % 86400) \div 3600, weekday |-> d % 7]

DateInYear(t, d, yr) == DateOf(t, d, yr, MonthFrom(yr.year, 1, yr.yday))

DateTime(t) == DateInYear(t, t \div 86400, YearFrom(t \div 86400, 2024))

Pad2(n) == IF n < 10 THEN "0" \o ToString(n) ELSE ToString(n)

\* strftime("%Y-%m-%d")
FormatDate(dt) == ToString(dt.year) \o "-" \o Pad2(dt.month) \o "-" \o Pad2(dt.day)

\* strftime("%U") of a Monday: the week of the year, weeks starting on Sunday
WeekU(dt) == (dt.yday + 6) \div 7

\* the week's time key without the year
WeekKey_yearless(monday) == "W" \o Pad2(WeekU(monday))

\* the time key of a week, monday being now - timedelta(days=now.weekday())
WeekKey(monday) == ToString(monday.year) \o "-W" \o Pad2(WeekU(monday))

\* the time key of the period at the date dt of the instant t
TimeKey(period, dt, t) ==
    CASE period = "hourly" -> FormatDate(dt) \o "-" \o Pad2(dt.hour)
      [] period = "daily"  -> FormatDate(dt)
      [] period = "weekly" -> WeekKey(DateTime(t - dt.weekday * 86400))
      [] OTHER             -> ToString(dt.year) \o "-" \o Pad2(dt.month)

\* the time key with the hour left out of the hourly one
TimeKey_hourless(period, dt, t) ==
    CASE period \in {"hourly", "daily"} -> FormatDate(dt)
      [] period = "weekly" -> WeekKey(DateTime(t - dt.weekday * 86400))
      [] OTHER             -> ToString(dt.year) \o "-" \o Pad2(dt.month)

\* _get_time_window_key with the hour left out of the hourly time key
_get_time_window_key_hourless(platform, period, action, t) ==
    "rate_limit:" \o platform \o ":" \o action \o ":" \o period \o ":"
        \o TimeKey_hourless(period, DateTime(t), t)

_get_time_window_key(platform, period, action, t) ==
    "rate_limit:" \o platform \o ":" \o action \o ":" \o period \o ":"
        \o TimeKey(period, DateTime(t), t)

_get_ttl_seconds(period) ==
    CASE period = "hourly" -> 3600
      [] period = "daily"  -> 86400
      [] period = "weekly" -> 604800
      [] OTHER             -> 2592000

\* what check_rate_limit returns, with the key it read
CheckResult(result, current, limit, key) ==
    [result |-> result, current |-> current, limit |-> limit, key |-> key]

\* the comparison with > for >= on the limit
Classify_over(current, limit) ==
    IF current > limit THEN "limit_exceeded"
    ELSE IF 10 * current >= 9 * limit THEN "limit_reached"
    ELSE "allowed"

\* the comparison of the count with the limit and with 90% of it
\* (limit * 0.9 <= count exactly when 9 * limit <= 10 * count)
Classify(current, limit) ==
    IF current >= limit THEN "limit_exceeded"
    ELSE IF 10 * current >= 9 * limit THEN "limit_reached"
    ELSE "allowed"

\* check_rate_limit once current_count is converted: n.ok = FALSE is int()
\* raising, which the except branch answers
check_rate_limit_count(S, n, limit, key) ==
    IF ~n.ok
    THEN [S |-> S, read |-> TRUE, res |-> CheckResult("allowed", 0, 999999, key)]
    ELSE [S |-> S, read |-> TRUE,
          res |-> CheckResult(Classify(n.n, limit), n.n, limit, key)]

\* check_rate_limit after its get r
check_rate_limit_after(r, limit, key) ==
    check_rate_limit_count(r.S,
        IF Truthy(r.ret) THEN PyToInt(r.ret) ELSE [ok |-> TRUE, n |-> 0],
        limit, key)

\* check_rate_limit of a configured period, under its key
check_rate_limit_key(S, limit, key, t) ==
    check_rate_limit_after(get(S, key, t, FALSE), limit, key)

\* check_rate_limit reading the counter of a period that has no limit
check_rate_limit_reading(S, limits, platform, action, period, t) ==
    check_rate_limit_key(S,
        IF Configured(limits, lower(platform), period)
        THEN LimitOf(limits, lower(platform), period) ELSE 999999,
        _get_time_window_key(lower(platform), period, action, t), t)

check_rate_limit(S, limits, platform, action, period, t) ==
    IF ~Configured(limits, lower(platform), period)
    THEN [S |-> S, read |-> FALSE, res |-> CheckResult("allowed", 0, 999999, "")]
    ELSE check_rate_limit_key(S, LimitOf(limits, lower(platform), period),
                              _get_time_window_key(lower(platform), period, action, t),
                              t)

\* the fold that lets the last period checked decide
AllowedAfter_last(allowed, result) == result # "limit_exceeded"

\* the fold that names the last period checked
BlockedAfter_last(blocked_by, period, result) == period

\* is_action_allowed's fold of one period's result into details['allowed']
AllowedAfter(allowed, result) ==
    IF result = "limit_exceeded" THEN FALSE ELSE allowed

\* ... and into details['blocked_by']
BlockedAfter(blocked_by, period, result) ==
    IF result = "limit_exceeded" THEN period ELSE blocked_by

(***************************************************************************)
(* connect(): one attempt (from_url and ping).  up says whether the        *)
(* primary answers the ping.  The outcome is the return value, or "sleep"  *)
(* with the delay after which connect() calls itself again.  The delay is  *)
(* recorded; the clock is advanced by Tick alone, so a retry may also come *)
(* early, which nothing checked here depends on.                           *)
(***************************************************************************)
\* connect() giving up one attempt late (> for >=)
connect_late(S, up) ==
    IF ~S.redis_url
    THEN [S |-> S, outcome |-> "false", delay |-> 0, tried |-> FALSE]
    ELSE IF up
    THEN [S |-> [S EXCEPT !.redis_client = TRUE, !.use_redis = TRUE,
                          !.connection_attempts = 0],
          outcome |-> "true", delay |-> 0, tried |-> TRUE]
    ELSE LET n == S.connection_attempts + 1 IN
         IF n > max_connection_attempts
         THEN [S |-> [S EXCEPT !.redis_client = TRUE, !.use_redis = FALSE,
                               !.connection_attempts = n],
               outcome |-> "false", delay |-> 0, tried |-> TRUE]
         ELSE [S |-> [S EXCEPT !.redis_client = TRUE, !.connection_attempts = n],
               outcome |-> "sleep", delay |-> 2 ^ n, tried |-> TRUE]

connect(S, up) ==
    IF ~S.redis_url
    THEN [S |-> S, outcome |-> "false", delay |-> 0, tried |-> FALSE]
    ELSE IF up
    THEN [S |-> [S EXCEPT !.redis_client = TRUE, !.use_redis = TRUE,
                          !.connection_attempts = 0],
          outcome |-> "true", delay |-> 0, tried |-> TRUE]
    ELSE LET n == S.connection_attempts + 1 IN
         IF n >= max_connection_attempts
         THEN [S |-> [S EXCEPT !.redis_client = TRUE, !.use_redis = FALSE,
                               !.connection_attempts = n],
               outcome |-> "false", delay |-> 0, tried |-> TRUE]
         ELSE [S |-> [S EXCEPT !.redis_client = TRUE, !.connection_attempts = n],
               outcome |-> "sleep", delay |-> 2 ^ n, tried |-> TRUE]

(***************************************************************************)
(* State.                                                                  *)
(*   store  the data client (fields and both backends): the instance the   *)
(*          callers' name data_client is bound to                          *)
(*   data_client  the instance redis_client.data_client names: the one     *)
(*          created at import, until init_data_client binds another        *)
(*   now    the wall clock, in seconds                                     *)
(*   conn   the connect() invocation in progress or last finished          *)
(*   last   the last completed store call: what it returned, the backends  *)
(*          it touched (path), whether the primary raised, whether the     *)
(*          store was Connected before (conn) and after (conn_after)       *)
(*   hist   per key, the last completed set() not followed by another      *)
(*          operation on the key other than get()                          *)
(*   scen   the scenario: which calls and arguments the callers use        *)
(*   platform_limits  the limiter's limits: per platform, per period       *)
(*   proc   per caller of the limiter, the coroutine of its call: the      *)
(*          await it is suspended at (pc), its locals and, once the call   *)
(*          has returned or raised, its results                            *)
(*   called per bucket, the increment_usage calls completed since the      *)
(*          bucket's last reset_usage                                      *)
(*   target the platform name the callers pass                             *)
(*   out    the last store call made while the backends may raise: what    *)
(*          it returned, or that an exception left it                      *)
(*   env    what the backends do to the limiter's calls: the primary       *)
(*          raises (fail), the local files cannot be read or written (io)  *)
(*   running, tasks, scheduled_tasks, system_status                        *)
(*          the fields of AureliusSystem; of system_status the module      *)
(*          statuses, the number of errors and whether started_at is set   *)
(*   loops  per task loop, its coroutine and its asyncio task              *)
(*   main   the coroutine of main(), start() and initialize()              *)
(*   shut   per invocation of shutdown(), its coroutine                    *)
(*   closes per collaborator, the close calls made on it                   *)
(*   health the health_metrics the last _perform_health_check returned     *)
(*   ready  the event loop's queue of coroutines that are ready to run     *)
(***************************************************************************)
VARIABLES store, now, conn, last, hist, scen, platform_limits, proc, called, target,
          data_client, out, env, running, tasks, scheduled_tasks, system_status,
          loops, main, shut, closes, health, ready

store_vars == <<store, now, conn, last, hist, scen>>

rl_vars == <<platform_limits, proc, called, target, data_client>>

aurelius_vars ==
    <<running, tasks, scheduled_tasks, system_status, loops, main, shut, closes,
      health, ready>>

sys_vars == <<out, env, aurelius_vars>>

vars == <<store_vars, rl_vars, sys_vars>>

NoOutcome ==
    [op |-> "none", ret |-> PyNone, ks |-> {}, exc |-> FALSE, done |-> FALSE,
     conn |-> FALSE, fail |-> FALSE, io |-> FALSE]

NoFaults == [fail |-> FALSE, io |-> FALSE]

(***************************************************************************)
(* AureliusSystem: its fields after __init__.                              *)
(***************************************************************************)
\* the task definitions, in the order of the dict
TaskNames ==
    <<"social_posting", "engagement_monitoring", "sales_processing",
      "analytics_generation", "learning_cycle", "health_check", "data_cleanup">>

\* scheduled_tasks as __init__ leaves it: every definition enabled
DefaultTasks == [n \in {TaskNames[i] : i \in 1..Len(TaskNames)} |-> TRUE]

\* the modules whose status initialize() records, in the order it does
ModuleOrder == <<"redis", "discord", "twitter", "mastodon", "paypal", "ai">>

NewStatus == [started_at |-> FALSE, modules_status |-> <<>>, errors |-> 0]

NoHealth == [checked |-> FALSE, errors |-> 0, num |-> 0, den |-> 1]

\* the task loops _start_scheduled_tasks knows, in the order it creates them
LoopOrder ==
    <<"social_posting", "engagement_monitoring", "sales_processing",
      "analytics_generation", "learning_cycle", "health_check">>

LoopNames == {LoopOrder[i] : i \in 1..Len(LoopOrder)}

\* a task loop that has not been created.  Of its current cycle: the call
\* site awaited, the handler that caught an exception last, the exceptions
\* logged; slept is the sleep the cycle began after
NoLoop ==
    [pc |-> "none", site |-> 0, must_cancel |-> FALSE, how |-> "", left |-> "",
     caught |-> "none", logged |-> 0, slept |-> "", cycles |-> 0]

\* main() has not been called; the Discord bot has not been started
NoMain == [pc |-> "none", bot |-> "off", signals |-> 0, initialized |-> FALSE]

\* the signals the process receives, at most MaxSignals of them
SignalNames == <<"signal1", "signal2", "signal3">>

\* who invokes shutdown(): the handler of each signal, and main()'s finally
Invokers == {"main"} \cup {SignalNames[k] : k \in 1..Len(SignalNames)}

\* an invocation of shutdown() that has not happened
NoShutdown == [pc |-> "none", trace |-> <<>>, failed |-> {}]

Collaborators == <<"discord_bot", "ai", "paypal", "discord_service", "data_client">>

NoCloses == [c \in {Collaborators[i] : i \in 1..Len(Collaborators)} |-> 0]

\* AureliusSystem() as constructed, main() not yet called; redis_client's
\* data_client is the instance created at import
Constructed ==
    /\ data_client = NewClient(FALSE)
    /\ running = FALSE
    /\ tasks = <<>>
    /\ scheduled_tasks = DefaultTasks
    /\ system_status = NewStatus
    /\ loops = [n \in LoopNames |-> NoLoop]
    /\ main = NoMain
    /\ shut = [i \in Invokers |-> NoShutdown]
    /\ closes = NoCloses
    /\ health = NoHealth
    /\ ready = <<>>

\* no call under faults has been made, and the system is as constructed
SysOff == out = NoOutcome /\ env = NoFaults /\ Constructed

StoreKeys == {"k1", "k2"}

V_int == PyInt(5)

V_numeral == PyStr(<<"5">>)

V_text == PyStr(<<"a", "b">>)

V_list == PyList(<<Item(<<>>, PyInt(1)), Item(<<>>, PyStr(<<"a">>))>>)

V_dict == PyDict(<<Item(<<"a">>, PyInt(1))>>)

SampleValues == {V_int, V_numeral, V_text, V_list, V_dict}

HashFields == {<<"f">>, <<"g">>}

Scenarios == {"values", "keys", "expiry", "counters"}

ScenOps(sc) ==
    CASE sc = "values"   -> {"set", "get", "delete"}
      [] sc = "keys"     -> {"set", "get", "delete", "exists", "keys"}
      [] sc = "expiry"   -> {"set", "get"}
      [] sc = "counters" -> {"set", "get", "increment", "set_hash", "get_hash",
                             "get_all_hash"}

ScenValues(sc) ==
    CASE sc = "values"   -> SampleValues
      [] sc = "keys"     -> {V_text}
      [] sc = "expiry"   -> {V_int}
      [] sc = "counters" -> {V_numeral}

ScenExpires(sc) ==
    IF sc = "expiry" THEN {NoExpiry} \cup (0..MaxExpire) ELSE {NoExpiry}

ScenKeys(sc) == IF sc = "keys" THEN StoreKeys ELSE {"k1"}

NoCall ==
    [op |-> "none", key |-> "", ret |-> PyNone, ks |-> {}, path |-> <<>>,
     raised |-> FALSE, conn |-> FALSE, conn_after |-> FALSE, t |-> 0]

NoSet ==
    [op |-> "none", v |-> PyNone, expire |-> NoExpiry, t |-> 0,
     conn |-> FALSE, raised |-> FALSE]

ConnIdle == [pc |-> "idle", tries |-> 0, sleeps |-> <<>>, result |-> "none"]

StoreInit ==
    /\ \E url \in BOOLEAN : store = NewClient(url)
    /\ now = 0
    /\ conn = ConnIdle
    /\ last = NoCall
    /\ hist = [k \in StoreKeys |-> NoSet]
    /\ scen \in Scenarios
    /\ platform_limits = DefaultLimits
    /\ proc = <<>>
    /\ called = <<>>
    /\ target = ""
    /\ SysOff

\* the primary can raise only when the call goes to it
Fails == IF Connected(store) THEN BOOLEAN ELSE {FALSE}

\* the record of a completed call op on key with result r
Call(op, key, r) ==
    [op |-> op, key |-> key, ret |-> r.ret, ks |-> r.ks, path |-> r.path,
     raised |-> r.raised, conn |-> Connected(store),
     conn_after |-> Connected(r.S), t |-> now]

\* a store call is made by a caller that is not inside connect(); of the
\* finished connect() invocation only the result is kept past the next call
Idle == conn.pc = "idle" /\ conn' = [ConnIdle EXCEPT !.result = conn.result]

\* a completed call on key that is neither get nor a successful set
Forget(key) == hist' = [hist EXCEPT ![key] = NoSet]

StoreSet(key, value, expire, fail) ==
    /\ "set" \in ScenOps(scen)
    /\ Idle
    /\ LET r == set(store, key, value, expire, now, fail) IN
       /\ store' = r.S
       /\ last' = Call("set", key, r)
       /\ hist' = [hist EXCEPT ![key] =
                      IF r.ret = PyBool(TRUE)
                      THEN [op |-> "set", v |-> value, expire |-> expire, t |-> now,
                            conn |-> Connected(store), raised |-> r.raised]
                      ELSE NoSet]
    /\ UNCHANGED <<now, scen, rl_vars, sys_vars>>

StoreGet(key, fail) ==
    /\ "get" \in ScenOps(scen)
    /\ Idle
    /\ LET r == get(store, key, now, fail) IN
       /\ store' = r.S
       /\ last' = Call("get", key, r)
    /\ UNCHANGED <<now, hist, scen, rl_vars, sys_vars>>

StoreDelete(key, fail) ==
    /\ "delete" \in ScenOps(scen)
    /\ Idle
    /\ LET r == delete(store, key, now, fail) IN
       /\ store' = r.S
       /\ last' = Call("delete", key, r)
    /\ Forget(key)
    /\ UNCHANGED <<now, scen, rl_vars, sys_vars>>

StoreExists(key, fail) ==
    /\ "exists" \in ScenOps(scen)
    /\ Idle
    /\ LET r == exists(store, key, now, fail) IN
       /\ store' = r.S
       /\ last' = Call("exists", key, r)
    /\ Forget(key)
    /\ UNCHANGED <<now, scen, rl_vars, sys_vars>>

StoreKeysCall(pattern, fail) ==
    /\ "keys" \in ScenOps(scen)
    /\ Idle
    /\ LET r == keys(store, pattern, now, fail) IN
       /\ store' = r.S
       /\ last' = Call("keys", pattern, r)
    /\ UNCHANGED <<now, hist, scen, rl_vars, sys_vars>>

\* the number a backend holds under key, 0 when it holds none
StoredCount(S, key) ==
    LET a == IF key \in DOMAIN S.redis /\ IsNumber(S.redis[key].text)
             THEN NumVal(S.redis[key].text) ELSE 0
        b == IF key \in DOMAIN S.files /\ IsNumber(S.files[key].value)
             THEN NumVal(S.files[key].value) ELSE 0
    IN IF a > b THEN a ELSE b

StoreIncrement(key, amount, fail) ==
    /\ "increment" \in ScenOps(scen)
    /\ Idle
    /\ StoredCount(store, key) < MaxStoreCount
    /\ LET r == increment(store, key, amount, now, fail) IN
       /\ store' = r.S
       /\ last' = Call("increment", key, r)
    /\ Forget(key)
    /\ UNCHANGED <<now, scen, rl_vars, sys_vars>>

StoreSetHash(key, field, value, fail) ==
    /\ "set_hash" \in ScenOps(scen)
    /\ Idle
    /\ LET r == set_hash(store, key, field, value, now, fail) IN
       /\ store' = r.S
       /\ last' = Call("set_hash", key, r)
    /\ Forget(key)
    /\ UNCHANGED <<now, scen, rl_vars, sys_vars>>

StoreGetHash(key, field, fail) ==
    /\ "get_hash" \in ScenOps(scen)
    /\ Idle
    /\ LET r == get_hash(store, key, field, now, fail) IN
       /\ store' = r.S
       /\ last' = Call("get_hash", key, r)
    /\ Forget(key)
    /\ UNCHANGED <<now, scen, rl_vars, sys_vars>>

StoreGetAllHash(key, fail) ==
    /\ "get_all_hash" \in ScenOps(scen)
    /\ Idle
    /\ LET r == get_all_hash(store, key, now, fail) IN
       /\ store' = r.S
       /\ last' = Call("get_all_hash", key, r)
    /\ Forget(key)
    /\ UNCHANGED <<now, scen, rl_vars, sys_vars>>

\* connect() is called: its first attempt
ConnectCall(up) ==
    /\ conn.pc = "idle"
    /\ store.connection_attempts < MaxAttempts
    /\ LET r == connect(store, up) IN
       /\ store' = r.S
       /\ conn' = [pc     |-> IF r.outcome = "sleep" THEN "sleeping" ELSE "idle",
                   tries  |-> IF r.tried THEN 1 ELSE 0,
                   sleeps |-> IF r.outcome = "sleep" THEN <<r.delay>> ELSE <<>>,
                   result |-> r.outcome]
    /\ UNCHANGED <<now, last, hist, scen, rl_vars, sys_vars>>

\* asyncio.sleep returns and connect() calls itself: the next attempt
ConnectRetry(up) ==
    /\ conn.pc = "sleeping"
    /\ LET r == connect(store, up) IN
       /\ store' = r.S
       /\ conn' = [pc     |-> IF r.outcome = "sleep" THEN "sleeping" ELSE "idle",
                   tries  |-> conn.tries + 1,
                   sleeps |-> IF r.outcome = "sleep"
                              THEN Append(conn.sleeps, r.delay) ELSE conn.sleeps,
                   result |-> r.outcome]
    /\ UNCHANGED <<now, last, hist, scen, rl_vars, sys_vars>>

\* a second passes
Tick ==
    /\ scen = "expiry"
    /\ now < MaxTime
    /\ now' = now + 1
    /\ UNCHANGED <<store, conn, last, hist, scen, rl_vars, sys_vars>>

StoreNext ==
    \/ \E k \in ScenKeys(scen), v \in ScenValues(scen), e \in ScenExpires(scen),
          f \in Fails : StoreSet(k, v, e, f)
    \/ \E k \in ScenKeys(scen), f \in Fails : StoreGet(k, f)
    \/ \E k \in ScenKeys(scen), f \in Fails : StoreDelete(k, f)
    \/ \E k \in ScenKeys(scen), f \in Fails : StoreExists(k, f)
    \/ \E pat \in {"*", "k1"}, f \in Fails : StoreKeysCall(pat, f)
    \/ \E k \in ScenKeys(scen), f \in Fails : StoreIncrement(k, 1, f)
    \/ \E k \in ScenKeys(scen), fl \in HashFields, v \in ScenValues(scen),
          f \in Fails : StoreSetHash(k, fl, v, f)
    \/ \E k \in ScenKeys(scen), fl \in HashFields, f \in Fails : StoreGetHash(k, fl, f)
    \/ \E k \in ScenKeys(scen), f \in Fails : StoreGetAllHash(k, f)
    \/ \E up \in BOOLEAN : ConnectCall(up)
    \/ \E up \in BOOLEAN : ConnectRetry(up)
    \/ Tick

SpecStore == StoreInit /\ [][StoreNext]_vars

(***************************************************************************)
(* Properties of the store.                                                *)
(***************************************************************************)
StoreOps ==
    {"set", "get", "delete", "exists", "keys", "increment", "set_hash",
     "get_hash", "get_all_hash"}

\* the last call is a get(k) that follows a successful set(k, v) with no
\* other operation on k in between
GetAfterSet == last.op = "get" /\ hist[last.key].op = "set"

\* C1: set(k, v) followed by get(k), with no other operation on k in
\* between, returns v: when both calls reach the primary, when the store is
\* in Fallback for both, and when the store is Connected and the primary
\* raises in both calls.
C1_RoundTrip ==
    GetAfterSet =>
        LET h == hist[last.key] IN
        (/\ h.expire = NoExpiry
         /\ \/ h.conn /\ ~h.raised /\ last.conn /\ ~last.raised
            \/ ~h.conn /\ ~last.conn
            \/ h.conn /\ h.raised /\ last.conn /\ last.raised)
        => last.ret = h.v

C9_RetriedLocally ==
    (last.op \in StoreOps /\ last.conn /\ last.raised) =>
        last.path = <<"redis", "local">> /\ last.conn_after

\* 2^1, 2^2, ...: the delays of one connect() invocation
Backoff(sleeps) == \A i \in 1..Len(sleeps) : sleeps[i] = 2 ^ i

\* C10: one connect() invocation tries the primary at most
\* max_connection_attempts times and sleeps 2^attempt seconds after each
\* failed attempt but the last; after the last failure the store is in
\* Fallback, every call made in Fallback touches the local store only, and a
\* connect() that succeeds makes the store Connected.
C10_ConnectBackoff ==
    /\ conn.tries <= max_connection_attempts
    /\ Backoff(conn.sleeps)
    /\ conn.pc = "sleeping" => Len(conn.sleeps) = conn.tries
    /\ (conn.pc = "idle" /\ conn.tries >= 1) => Len(conn.sleeps) = conn.tries - 1
    /\ (conn.pc = "idle" /\ conn.result = "false") => ~Connected(store)
    /\ (conn.pc = "idle" /\ conn.result = "true") => Connected(store)
    /\ (last.op \in StoreOps /\ ~last.conn) =>
           last.path = <<"local">> /\ ~last.raised

\* C10 witness: connect() has failed three times, slept 2 s and 4 s, and
\* left the store in Fallback
C10_Witness ==
    /\ conn.pc = "idle" /\ conn.result = "false"
    /\ conn.tries = max_connection_attempts
    /\ conn.sleeps = <<2, 4>>
    /\ store.redis_client /\ ~store.use_redis

(***************************************************************************)
(* The store under faults: every public operation, called on a store that  *)
(* is Connected or in Fallback, while the primary raises (fail) and the    *)
(* local files cannot be read or written (io).                             *)
(***************************************************************************)
FaultValues == {V_numeral, V_dict}

FaultFields == {<<"a">>}

\* the record of the call op that ended as r
Outcome(op, r, fail, io) ==
    [op |-> op, ret |-> r.ret, ks |-> r.ks, exc |-> r.exc, done |-> r.done,
     conn |-> Connected(store), fail |-> fail, io |-> io]

\* the call op ends as r
Ends(op, r, fail, io) ==
    /\ store' = r.S
    /\ out' = Outcome(op, r, fail, io)
    /\ UNCHANGED <<now, conn, last, hist, scen, rl_vars, env, aurelius_vars>>

TrySet(key, value, fail, io) ==
    Ends("set", set_try(store, key, value, NoExpiry, now, fail, io), fail, io)

TryGet(key, fail, io) == Ends("get", get_try(store, key, now, fail, io), fail, io)

TryDelete(key, fail, io) ==
    Ends("delete", delete_try(store, key, now, fail, io), fail, io)

TryExists(key, fail, io) ==
    Ends("exists", exists_try(store, key, now, fail, io), fail, io)

TryKeys(pattern, fail, io) ==
    Ends("keys", keys_try(store, pattern, now, fail, io), fail, io)

TryIncrement(key, amount, fail, io) ==
    /\ StoredCount(store, key) < MaxStoreCount
    /\ Ends("increment", increment_try(store, key, amount, now, fail, io), fail, io)

TrySetHash(key, field, value, fail, io) ==
    Ends("set_hash", set_hash_try(store, key, field, value, now, fail, io), fail, io)

TryGetHash(key, field, fail, io) ==
    Ends("get_hash", get_hash_try(store, key, field, now, fail, io), fail, io)

TryGetAllHash(key, fail, io) ==
    Ends("get_all_hash", get_all_hash_try(store, key, now, fail, io), fail, io)

FaultInit ==
    /\ \E up \in BOOLEAN : store = connect(NewClient(up), up).S
    /\ now = 0
    /\ conn = ConnIdle
    /\ last = NoCall
    /\ hist = [k \in StoreKeys |-> NoSet]
    /\ scen = "counters"
    /\ platform_limits = DefaultLimits
    /\ proc = <<>>
    /\ called = <<>>
    /\ target = ""
    /\ SysOff

FaultNext ==
    \E key \in StoreKeys, fail \in Fails, io \in BOOLEAN :
       \/ \E value \in FaultValues : TrySet(key, value, fail, io)
       \/ TryGet(key, fail, io)
       \/ TryDelete(key, fail, io)
       \/ TryExists(key, fail, io)
       \/ TryKeys("*", fail, io)
       \/ TryIncrement(key, 1, fail, io)
       \/ \E field \in FaultFields, value \in FaultValues :
             TrySetHash(key, field, value, fail, io)
       \/ \E field \in FaultFields : TryGetHash(key, field, fail, io)
       \/ TryGetAllHash(key, fail, io)

SpecFaults == FaultInit /\ [][FaultNext]_vars

\* what an operation returns when it could not be carried out
Sentinel(op) ==
    CASE op \in {"set", "delete", "exists", "set_hash"} -> PyBool(FALSE)
      [] op \in {"get", "get_hash", "keys"}              -> PyNone
      [] op = "increment"                                -> PyInt(0)
      [] op = "get_all_hash"                             -> PyDict(<<>>)
      [] OTHER                                           -> PyNone

\* no exception leaves a public operation
NeverRaises == ~out.exc

\* C11: no public operation of the store raises to its caller, and an
\* operation that no backend carried out returns its sentinel
C11_NoRaiseSentinel ==
    out.op # "none" =>
       /\ ~out.exc
       /\ ~out.done => out.ret = Sentinel(out.op) /\ out.ks = {}

\* an operation in Fallback that raised nothing and was not carried out
C11_FailedCall == out.op # "none" /\ ~out.conn /\ out.io /\ ~out.done

(***************************************************************************)
(* Callers of the rate limiter.  Each caller is a coroutine; a step of it  *)
(* runs from the return of one awaited store call to the issue of the      *)
(* next, whose effect on the store is applied when it is issued.           *)
(***************************************************************************)
\* the clock values of the limiter's runs: 2024-06-01 13:59:59 and 14:00:01
Instants == {13183199, 13183201}

\* the platform names the callers pass; "tiktok" has no configured limits
RLTargets == {"Twitter", "mastodon", "tiktok"}

RLScenarios == {"counting", "gating"}

\* the periods the callers pass to check_rate_limit; weekly is not configured
CheckPeriods == {"hourly", "daily", "weekly"}

CountPeriods == {"hourly", "daily"}

\* the limits a caller passes to update_platform_limits
LimitUpdates == {<<Limit("daily", 3)>>}

\* how far past the default hourly limit the callers drive a counter
CountCap(platform) ==
    IF Configured(DefaultLimits, lower(platform), "hourly")
    THEN LimitOf(DefaultLimits, lower(platform), "hourly") + MaxOver
    ELSE 1 + MaxOver

\* the bucket of period that holds clock value t
BucketOf(period, t) ==
    CASE period = "hourly" -> t \div 3600
      [] period = "daily"  -> t \div 86400
      [] period = "weekly" -> t \div 604800
      [] OTHER             -> DateTime(t).year * 12 + DateTime(t).month

Bucket(period, t) == <<period, BucketOf(period, t)>>

\* the completed increment_usage calls in bucket b since its last reset
Calls(b) == IF b \in DOMAIN called THEN called[b] ELSE 0

NoCheck == CheckResult("none", 0, 0, "")

AllPeriods == <<"hourly", "daily", "weekly", "monthly">>

\* the counters of platform's buckets at t, by key
CountAt(S, key) == [key |-> key, count |-> StoredCount(S, key)]

Counts(S, platform, t) ==
    [i \in 1..Len(AllPeriods) |->
        CountAt(S, _get_time_window_key(lower(platform), AllPeriods[i], "post", t))]

ProcIdle ==
    [pc |-> "idle", api |-> "none", platform |-> "", period |-> "", periods |-> <<>>,
     key |-> "", t |-> 0, amount |-> 0, cur |-> PyNone, new_count |-> 0,
     res |-> NoCheck, calls |-> 0, before |-> 0, details |-> <<>>, allowed |-> TRUE,
     blocked_by |-> "unknown", outcome |-> "none", message |-> "",
     invoked |-> FALSE, used |-> <<>>, entry |-> <<>>, gate |-> "none",
     asked |-> FALSE, field |-> <<>>, value |-> PyNone]

\* a caller enters an API of the limiter
Enter(api, platform) == [ProcIdle EXCEPT !.api = api, !.platform = platform]

\* the call returns or raises: its locals are gone, its results stay
Leave(P, outcome) ==
    [P EXCEPT !.pc = "idle", !.outcome = outcome, !.key = "", !.cur = PyNone,
              !.periods = <<>>, !.amount = 0, !.before = 0]

\* the caller P awaiting the get of the check c
Checking(c, P, period, t) ==
    [S |-> c.S,
     P |-> [P EXCEPT !.pc = IF c.read THEN "w_check" ELSE "idle",
                     !.outcome = IF c.read THEN "none" ELSE "returned",
                     !.period = period, !.t = t, !.res = c.res,
                     !.calls = Calls(Bucket(period, t))]]

\* check_rate_limit runs up to its await of get
BeginCheck(S, P, limits, period, t) ==
    Checking(check_rate_limit(S, limits, P.platform, "post", period, t), P, period, t)

\* the caller Q awaiting the increment r of the primary
Incrementing(r, Q) == [S |-> r.S, P |-> [Q EXCEPT !.pc = "w_incr", !.new_count = r.ret.n]]

\* the caller Q awaiting the read r of the local store
Reading(r, Q) == [S |-> r.S, P |-> [Q EXCEPT !.pc = "w_read", !.cur = r.ret]]

\* increment_usage under its key
BeginIncrementKey(S, P, period, key, amount, t) ==
    IF Connected(S)
    THEN Incrementing(increment(S, key, amount, t, FALSE),
                      [P EXCEPT !.period = period, !.t = t, !.key = key,
                                !.amount = amount, !.before = StoredCount(S, key)])
    ELSE Reading(_get_local(S, key, t),
                 [P EXCEPT !.period = period, !.t = t, !.key = key,
                           !.amount = amount, !.before = StoredCount(S, key)])

\* increment_usage runs up to its await of increment: on the primary the
\* increment is applied, on the local store the file is read
BeginIncrement(S, P, period, amount, t) ==
    BeginIncrementKey(S, P, period,
                      _get_time_window_key(lower(P.platform), period, "post", t),
                      amount, t)

\* incrementing whether func returned or raised
PeriodsToIncrement_always(limits, platform, raised) ==
    IF lower(platform) \notin DOMAIN limits THEN <<>>
    ELSE PeriodsOf(limits, lower(platform))

\* the periods execute_with_rate_limit increments once func has returned
\* or raised
PeriodsToIncrement(limits, platform, raised) ==
    IF raised \/ lower(platform) \notin DOMAIN limits THEN <<>>
    ELSE PeriodsOf(limits, lower(platform))

\* the caller's record of the increment_usage that has returned
Returned(P) ==
    [P EXCEPT !.used = Append(@, [period |-> P.period, key |-> P.key,
                                  before |-> P.before, ret |-> P.new_count]),
              !.periods = Tail(@)]

\* increment_usage returns: to its caller, or to execute_with_rate_limit's
\* loop, which calls it for the next period
ReturnIncrement(S, P, t) ==
    IF Len(P.periods) = 1
    THEN [S |-> S, P |-> Leave(Returned(P), IF P.outcome = "none" THEN "returned"
                                            ELSE P.outcome)]
    ELSE BeginIncrement(S, Returned(P), Head(Tail(P.periods)), 1, t)

\* the text of RateLimitExceeded
Message(platform, action, blocked_by) ==
    "Rate limit exceeded for " \o platform \o " " \o action
        \o " (" \o blocked_by \o ")"

\* the caller P awaiting the delete r of the key
Deleting(r, P, key, t) ==
    [S |-> r.S,
     P |-> [P EXCEPT !.pc = "w_delete", !.period = Head(P.periods), !.t = t,
                     !.key = key]]

\* reset_usage's delete of a key
BeginDeleteKey(S, P, key, t) == Deleting(delete(S, key, t, FALSE), P, key, t)

\* reset_usage runs up to its await of delete for the first of periods
BeginDelete(S, P, t) ==
    BeginDeleteKey(S, P,
                   _get_time_window_key(lower(P.platform), Head(P.periods), "post", t),
                   t)

Bump(f, b) == IF b \in DOMAIN f THEN [f EXCEPT ![b] = @ + 1] ELSE (b :> 1) @@ f

Zero(f, b) == IF b \in DOMAIN f THEN [f EXCEPT ![b] = 0] ELSE f

\* the callers drive no counter past the cap
Below(S, platform, period, cap, t) ==
    StoredCount(S, _get_time_window_key(lower(platform), period, "post", t)) < cap

\* the cap of a run: of a single caller, or of concurrent callers
Cap(platform) ==
    IF Cardinality(DOMAIN proc) = 1 THEN CountCap(platform) ELSE MaxConcCount

IsIdle(p) == proc[p].pc = "idle"

RLFrame == UNCHANGED <<conn, last, hist, scen, target, data_client, sys_vars>>

\* the store and the caller p after the step b of its call
Step(p, b) ==
    /\ store' = b.S
    /\ proc' = [proc EXCEPT ![p] = b.P]

\* the caller p becomes P, the store untouched
Local(p, P) ==
    /\ proc' = [proc EXCEPT ![p] = P]
    /\ store' = store

\* check_rate_limit(platform, "post", period) is called
CheckRateLimitCall(p, platform, period) ==
    /\ IsIdle(p)
    /\ scen = "counting"
    /\ Step(p, BeginCheck(store, Enter("check_rate_limit", platform),
                          platform_limits, period, now))
    /\ UNCHANGED <<now, platform_limits, called>>
    /\ RLFrame

\* is_action_allowed runs up to its first await: on a platform with no
\* limits it returns True at once
BeginAllowed(S, P, limits, t) ==
    IF lower(P.platform) \notin DOMAIN limits
    THEN [S |-> S, P |-> Leave(P, "returned")]
    ELSE BeginCheck(S, [P EXCEPT !.periods = PeriodsOf(limits, lower(P.platform))],
                    limits, Head(PeriodsOf(limits, lower(P.platform))), t)

\* is_action_allowed(platform, "post") is called
IsActionAllowedCall(p, platform) ==
    /\ IsIdle(p)
    /\ scen = "gating"
    /\ Step(p, BeginAllowed(store, Enter("is_action_allowed", platform),
                            platform_limits, now))
    /\ UNCHANGED <<now, platform_limits, called>>
    /\ RLFrame

\* is_action_allowed has returned to execute_with_rate_limit at once
Invoking(b) ==
    [S |-> b.S,
     P |-> IF b.P.pc = "idle"
           THEN [b.P EXCEPT !.pc = "w_op", !.outcome = "none", !.invoked = TRUE]
           ELSE b.P]

\* execute_with_rate_limit(platform, "post", func) is called; when
\* is_action_allowed returns at once, func is invoked
ExecuteWithRateLimitCall(p, platform) ==
    /\ IsIdle(p)
    /\ scen = "gating"
    /\ \A period \in CountPeriods : Below(store, platform, period, Cap(platform), now)
    /\ Step(p, Invoking(BeginAllowed(store,
                                     [Enter("execute_with_rate_limit", platform)
                                         EXCEPT !.entry = Counts(store, platform, now)],
                                     platform_limits, now)))
    /\ UNCHANGED <<now, platform_limits, called>>
    /\ RLFrame

\* the result of a period's check, folded into is_action_allowed's locals
Folded(P) ==
    [P EXCEPT !.details = Append(@, [period |-> P.period, res |-> P.res]),
              !.allowed = AllowedAfter(@, P.res.result),
              !.blocked_by = BlockedAfter(@, P.period, P.res.result),
              !.periods = Tail(@)]

\* is_action_allowed goes on from the locals Q, and returns to its caller:
\* to execute_with_rate_limit, which raises RateLimitExceeded or invokes
\* func, or to a social client's post operation (api "post"), which
\* returns an error or calls the platform
AfterCheck(p, Q) ==
    IF Len(Q.periods) > 0
    THEN Step(p, BeginCheck(store, Q, platform_limits, Head(Q.periods), now))
    ELSE IF Q.api = "is_action_allowed"
    THEN Local(p, Leave(Q, "returned"))
    ELSE IF ~Q.allowed /\ Q.api = "post"
    THEN Local(p, Leave(Q, "returned_error"))
    ELSE IF ~Q.allowed
    THEN Local(p, [Leave(Q, "rate_limit_exceeded") EXCEPT !.message =
                      Message(Q.platform, "post", Q.blocked_by)])
    ELSE Local(p, [Q EXCEPT !.pc = "w_op", !.invoked = TRUE])

\* the get of check_rate_limit returns
ResumeCheck(p) ==
    /\ proc[p].pc = "w_check"
    /\ IF proc[p].api = "check_rate_limit"
       THEN Local(p, Leave(proc[p], "returned"))
       ELSE AfterCheck(p, Folded(proc[p]))
    /\ UNCHANGED <<now, platform_limits, called>>
    /\ RLFrame

\* execute_with_rate_limit goes on from func's outcome to the periods it
\* increments
AfterOp(p, P, periods) ==
    IF Len(periods) = 0
    THEN Local(p, Leave(P, P.outcome))
    ELSE Step(p, BeginIncrement(store, [P EXCEPT !.periods = periods],
                                Head(periods), 1, now))

\* func returns or raises
ResumeOp(p, raised) ==
    /\ proc[p].pc = "w_op"
    /\ AfterOp(p, [proc[p] EXCEPT !.outcome = IF raised THEN "op_raised"
                                              ELSE "returned"],
               PeriodsToIncrement(platform_limits, proc[p].platform, raised))
    /\ UNCHANGED <<now, platform_limits, called>>
    /\ RLFrame

\* increment_usage(platform, "post", period, amount) is called
IncrementUsageCall(p, platform, period, amount) ==
    /\ IsIdle(p)
    /\ scen = "counting"
    /\ Below(store, platform, period, Cap(platform), now)
    /\ Step(p, BeginIncrement(store,
                              [Enter("increment_usage", platform)
                                  EXCEPT !.periods = <<period>>],
                              period, amount, now))
    /\ UNCHANGED <<now, platform_limits, called>>
    /\ RLFrame

\* the caller P awaiting the end of _increment_local's write w
Written(w, P) == [S |-> w.S, P |-> [P EXCEPT !.pc = "w_incr", !.new_count = w.ret.n]]

\* _get_local returns inside _increment_local: the new value is written
ResumeRead(p) ==
    /\ proc[p].pc = "w_read"
    /\ Step(p, Written(_increment_local_write(store, proc[p].key, proc[p].cur,
                                              proc[p].amount, now),
                       proc[p]))
    /\ UNCHANGED <<now, platform_limits, called>>
    /\ RLFrame

\* the caller P awaiting the set r that carries the ttl
Setting(r, P) == [S |-> r.S, P |-> [P EXCEPT !.pc = "w_set"]]

\* increment returns the new count: a count equal to amount is written
\* back with the period's ttl, any other count is returned
ResumeIncr(p) ==
    /\ proc[p].pc = "w_incr"
    /\ IF proc[p].new_count = proc[p].amount
       THEN /\ Step(p, Setting(set(store, proc[p].key, PyInt(proc[p].new_count),
                                   _get_ttl_seconds(proc[p].period), now, FALSE),
                               proc[p]))
            /\ called' = called
       ELSE /\ Step(p, ReturnIncrement(store, proc[p], now))
            /\ called' = Bump(called, Bucket(proc[p].period, proc[p].t))
    /\ UNCHANGED <<now, platform_limits>>
    /\ RLFrame

\* the set that carries the ttl returns
ResumeSet(p) ==
    /\ proc[p].pc = "w_set"
    /\ Step(p, ReturnIncrement(store, proc[p], now))
    /\ called' = Bump(called, Bucket(proc[p].period, proc[p].t))
    /\ UNCHANGED <<now, platform_limits>>
    /\ RLFrame

\* the step b of reset_usage, which deletes the counter of a period
StepDelete(p, b) ==
    /\ Step(p, b)
    /\ called' = Zero(called, Bucket(b.P.period, now))

\* reset_usage(platform, "post", period) is called; period "all" is None
ResetUsageCall(p, platform, period) ==
    /\ IsIdle(p)
    /\ scen = "counting"
    /\ IF lower(platform) \notin DOMAIN platform_limits
       THEN /\ proc' = [proc EXCEPT ![p] = Leave(Enter("reset_usage", platform),
                                                  "returned_false")]
            /\ UNCHANGED <<store, called>>
       ELSE StepDelete(p, BeginDelete(store,
                [Enter("reset_usage", platform) EXCEPT !.periods =
                    IF period = "all"
                    THEN PeriodsOf(platform_limits, lower(platform))
                    ELSE <<period>>],
                now))
    /\ UNCHANGED <<now, platform_limits>>
    /\ RLFrame

\* a delete of reset_usage returns
ResumeDelete(p) ==
    /\ proc[p].pc = "w_delete"
    /\ IF Len(proc[p].periods) = 1
       THEN /\ proc' = [proc EXCEPT ![p] =
                           Leave([proc[p] EXCEPT !.periods = Tail(@)], "returned")]
            /\ UNCHANGED <<store, called>>
       ELSE StepDelete(p, BeginDelete(store, [proc[p] EXCEPT !.periods = Tail(@)], now))
    /\ UNCHANGED <<now, platform_limits>>
    /\ RLFrame

\* update_platform_limits(platform, limits) is called; it awaits nothing
UpdatePlatformLimits(p, platform, limits) ==
    /\ IsIdle(p)
    /\ scen = "gating"
    /\ platform_limits' = update_platform_limits(platform_limits, platform, limits)
    /\ proc' = [proc EXCEPT ![p] = Leave(Enter("update_platform_limits", platform),
                                         "returned")]
    /\ UNCHANGED <<store, now, called>>
    /\ RLFrame

\* the clock passes to the next instant
Advance ==
    /\ \E t \in Instants :
          /\ t > now
          /\ \A u \in Instants : u > now => t <= u
          /\ now' = t
    /\ UNCHANGED <<store, platform_limits, proc, called>>
    /\ RLFrame

\* the limiter over a store that is Connected (primary up), or in Fallback,
\* throughout
RLInit(callers, scenarios, targets, primary) ==
    /\ \E up \in primary : store = connect(NewClient(up), up).S
    /\ now = CHOOSE t \in Instants : \A u \in Instants : t <= u
    /\ conn = ConnIdle
    /\ last = NoCall
    /\ hist = [k \in StoreKeys |-> NoSet]
    /\ scen \in scenarios
    /\ platform_limits = DefaultLimits
    /\ proc = [p \in callers |-> ProcIdle]
    /\ called = <<>>
    /\ target \in targets
    /\ SysOff

\* every operation of the limiter
RLNext ==
    \/ \E p \in DOMAIN proc, period \in CheckPeriods :
          CheckRateLimitCall(p, target, period)
    \/ \E p \in DOMAIN proc : IsActionAllowedCall(p, target)
    \/ \E p \in DOMAIN proc : ExecuteWithRateLimitCall(p, target)
    \/ \E p \in DOMAIN proc : ResumeCheck(p)
    \/ \E p \in DOMAIN proc, raised \in BOOLEAN : ResumeOp(p, raised)
    \/ \E p \in DOMAIN proc, period \in CountPeriods :
          IncrementUsageCall(p, target, period, 1)
    \/ \E p \in DOMAIN proc : ResumeRead(p)
    \/ \E p \in DOMAIN proc : ResumeIncr(p)
    \/ \E p \in DOMAIN proc : ResumeSet(p)
    \/ \E p \in DOMAIN proc, period \in CountPeriods \cup {"all"} :
          ResetUsageCall(p, target, period)
    \/ \E p \in DOMAIN proc : ResumeDelete(p)
    \/ \E p \in DOMAIN proc, limits \in LimitUpdates :
          UpdatePlatformLimits(p, target, limits)
    \/ Advance

\* one caller
SpecRL == RLInit({"c1"}, RLScenarios, RLTargets, BOOLEAN) /\ [][RLNext]_vars

\* the operations that count, on the hourly bucket
ConcNext ==
    \/ \E p \in DOMAIN proc : CheckRateLimitCall(p, target, "hourly")
    \/ \E p \in DOMAIN proc : ResumeCheck(p)
    \/ \E p \in DOMAIN proc : IncrementUsageCall(p, target, "hourly", 1)
    \/ \E p \in DOMAIN proc : ResumeRead(p)
    \/ \E p \in DOMAIN proc : ResumeIncr(p)
    \/ \E p \in DOMAIN proc : ResumeSet(p)
    \/ \E p \in DOMAIN proc : ResetUsageCall(p, target, "hourly")
    \/ \E p \in DOMAIN proc : ResumeDelete(p)
    \/ Advance

\* two callers that interleave at their awaits, over the store the module
\* binds at import: the default client, which has no URL
SpecRLConc ==
    RLInit({"c1", "c2"}, {"counting"}, {"Twitter"}, {FALSE}) /\ [][ConcNext]_vars

(***************************************************************************)
(* The limiter over backends that raise.  The counters of the current      *)
(* buckets were written before the backends began to raise.                *)
(***************************************************************************)
\* check_rate_limit that denies when its get was served by no backend
check_rate_limit_got_closed(g, limit, key) ==
    IF g.exc \/ ~g.done
    THEN [S |-> g.S, read |-> TRUE,
          res |-> CheckResult("limit_exceeded", 0, limit, key)]
    ELSE check_rate_limit_after(g, limit, key)

\* check_rate_limit after its get g: an exception out of the try block is
\* answered by the except branch
check_rate_limit_got(g, limit, key) ==
    IF g.exc
    THEN [S |-> g.S, read |-> TRUE, res |-> CheckResult("allowed", 0, 999999, key)]
    ELSE check_rate_limit_after(g, limit, key)

check_rate_limit_try(S, limits, platform, action, period, t, fail, io) ==
    IF ~Configured(limits, lower(platform), period)
    THEN [S |-> S, read |-> FALSE, res |-> CheckResult("allowed", 0, 999999, "")]
    ELSE check_rate_limit_got(
             get_try(S, _get_time_window_key(lower(platform), period, action, t),
                     t, fail, io),
             LimitOf(limits, lower(platform), period),
             _get_time_window_key(lower(platform), period, action, t))

BeginCheckTry(S, P, limits, period, t, fail, io) ==
    Checking(check_rate_limit_try(S, limits, P.platform, "post", period, t, fail, io),
             P, period, t)

BeginAllowedTry(S, P, limits, t, fail, io) ==
    IF lower(P.platform) \notin DOMAIN limits
    THEN [S |-> S, P |-> Leave(P, "returned")]
    ELSE BeginCheckTry(S, [P EXCEPT !.periods = PeriodsOf(limits, lower(P.platform))],
                       limits, Head(PeriodsOf(limits, lower(P.platform))), t,
                       fail, io)

RLFaultFrame == UNCHANGED <<now, platform_limits, called, conn, last, hist, scen,
                            target, data_client, sys_vars>>

\* check_rate_limit(platform, "post", period) is called
CheckRateLimitFaulty(p, platform, period) ==
    /\ IsIdle(p)
    /\ Step(p, BeginCheckTry(store, Enter("check_rate_limit", platform),
                             platform_limits, period, now, env.fail, env.io))
    /\ RLFaultFrame

\* is_action_allowed(platform, "post") is called
IsActionAllowedFaulty(p, platform) ==
    /\ IsIdle(p)
    /\ Step(p, BeginAllowedTry(store, Enter("is_action_allowed", platform),
                               platform_limits, now, env.fail, env.io))
    /\ RLFaultFrame

\* the get of check_rate_limit returns
ResumeCheckFaulty(p) ==
    /\ proc[p].pc = "w_check"
    /\ IF proc[p].api = "check_rate_limit"
       THEN Local(p, Leave(proc[p], "returned"))
       ELSE IF Len(proc[p].periods) > 1
       THEN Step(p, BeginCheckTry(store, Folded(proc[p]), platform_limits,
                                  Head(Tail(proc[p].periods)), now,
                                  env.fail, env.io))
       ELSE Local(p, Leave(Folded(proc[p]), "returned"))
    /\ RLFaultFrame

\* the counts the buckets of the platform hold when the run begins
SeedCounts(platform) ==
    IF lower(platform) \notin DOMAIN DefaultLimits THEN {0}
    ELSE {0, LimitOf(DefaultLimits, lower(platform), "hourly")}

\* the store once count n is written for the period's bucket at t
Seeded(S, platform, period, n, t) ==
    IF n = 0 THEN S
    ELSE set(S, _get_time_window_key(lower(platform), period, "post", t),
             PyInt(n), _get_ttl_seconds(period), t, FALSE).S

RLFaultInit ==
    /\ now = CHOOSE t \in Instants : \A u \in Instants : t <= u
    /\ target \in RLTargets
    /\ \E up \in BOOLEAN, h \in SeedCounts(target), d \in SeedCounts(target) :
          /\ store = Seeded(Seeded(connect(NewClient(up), up).S,
                                   target, "hourly", h, now),
                            target, "daily", d, now)
          /\ env \in [fail : IF up THEN BOOLEAN ELSE {FALSE}, io : BOOLEAN]
    /\ out = NoOutcome
    /\ Constructed
    /\ conn = ConnIdle
    /\ last = NoCall
    /\ hist = [k \in StoreKeys |-> NoSet]
    /\ scen = "gating"
    /\ platform_limits = DefaultLimits
    /\ proc = [p \in {"c1"} |-> ProcIdle]
    /\ called = <<>>

RLFaultNext ==
    \/ \E p \in DOMAIN proc, period \in CheckPeriods :
          CheckRateLimitFaulty(p, target, period)
    \/ \E p \in DOMAIN proc : IsActionAllowedFaulty(p, target)
    \/ \E p \in DOMAIN proc : ResumeCheckFaulty(p)

SpecRLFaults == RLFaultInit /\ [][RLFaultNext]_vars

(***************************************************************************)
(* The social posting loop, over the limiter.  The loop's task is caller   *)
(* "c1"; loops["social_posting"].site is the platform of the cycle it      *)
(* handles.  Each social client's post operation checks the limiter, calls *)
(* the platform and, when that succeeded, increments the usage of every    *)
(* configured period.                                                      *)
(***************************************************************************)
\* platforms, in the order of the cycle
Platforms == <<"twitter", "mastodon", "discord">>

\* the tuple is_action_allowed returns: details is never empty
AllowedTuple(allowed) ==
    PyTuple(<<Item(<<>>, PyBool(allowed)),
              Item(<<>>, PyDict(<<Item(<<"a", "l", "l", "o", "w", "e", "d">>,
                                       PyBool(allowed))>>))>>)

\* if not await rate_limiter.is_action_allowed(platform, "post")
Skips(allowed) == ~Truthy(AllowedTuple(allowed))

\* the loop, its caller record and the store after a step
Posting(L, b) == [S |-> b.S, P |-> b.P, L |-> L]

\* the for loop goes on: to the check of the next platform, or to the
\* sleep between cycles
next_platform(S, L, limits, t) ==
    IF L.site < Len(Platforms)
    THEN Posting([L EXCEPT !.pc = "cycle", !.site = @ + 1],
                 BeginAllowed(S, Enter("_social_posting_loop", Platforms[L.site + 1]),
                              limits, t))
    ELSE Posting([L EXCEPT !.pc = "sleep", !.site = 0], [S |-> S, P |-> ProcIdle])

\* is_action_allowed has returned to the loop with the locals Q: the
\* platform is skipped, or the topic is asked for
tests_allowed(S, L, Q, limits, t) ==
    IF Skips(Q.allowed)
    THEN next_platform(S, L, limits, t)
    ELSE Posting(L, [S |-> S,
                     P |-> [Q EXCEPT !.pc = "w_topic",
                                     !.gate = IF Q.allowed THEN "allowed"
                                              ELSE "blocked"]])

PostingStep(p, b) ==
    /\ store' = b.S
    /\ proc' = [proc EXCEPT ![p] = b.P]
    /\ loops' = [loops EXCEPT !["social_posting"] = b.L]

PostingFrame ==
    UNCHANGED <<now, platform_limits, called, conn, last, hist, scen, target,
                data_client, out, env, running, tasks, scheduled_tasks,
                system_status, main, shut, closes, health, ready>>

\* the loop's task runs first, or its sleep between cycles returns: while
\* self.running, a cycle begins with the first platform
CycleBegins(p) ==
    /\ scen = "posting"
    /\ running
    /\ IsIdle(p)
    /\ loops["social_posting"].pc \in {"ready", "sleep"}
    /\ loops["social_posting"].cycles < MaxCycles
    /\ PostingStep(p, next_platform(store,
                                    [loops["social_posting"] EXCEPT !.cycles = @ + 1,
                                                                    !.site = 0],
                                    platform_limits, now))
    /\ PostingFrame

\* the get of one of is_action_allowed's checks returns to the loop
PostingResumeCheck(p) ==
    /\ proc[p].pc = "w_check"
    /\ proc[p].api = "_social_posting_loop"
    /\ IF Len(proc[p].periods) > 1
       THEN PostingStep(p, Posting(loops["social_posting"],
                                   BeginCheck(store, Folded(proc[p]), platform_limits,
                                              Head(Tail(proc[p].periods)), now)))
       ELSE PostingStep(p, tests_allowed(store, loops["social_posting"],
                                         Folded(proc[p]), platform_limits, now))
    /\ PostingFrame

\* _get_content_topic returns, and generate_social_content is called; or it
\* raises, which the try around the platform catches
ResumeTopic(p, raised) ==
    /\ proc[p].pc = "w_topic"
    /\ IF raised
       THEN PostingStep(p, next_platform(store, loops["social_posting"],
                                         platform_limits, now))
       ELSE PostingStep(p, Posting(loops["social_posting"],
                                   [S |-> store,
                                    P |-> [proc[p] EXCEPT !.pc = "w_content",
                                                          !.asked = TRUE]]))
    /\ PostingFrame

\* what generate_social_content does: it returns a text, or nothing, or
\* raises
Contents == {"text", "empty", "raises"}

\* generate_social_content returns: with a text the platform's post
\* operation is called, which checks the limiter first
ResumeContent(p, content) ==
    /\ proc[p].pc = "w_content"
    /\ IF content = "text"
       THEN PostingStep(p, Posting(loops["social_posting"],
                BeginAllowed(store,
                             [Enter("post", proc[p].platform)
                                 EXCEPT !.gate = proc[p].gate, !.asked = TRUE],
                             platform_limits, now)))
       ELSE PostingStep(p, next_platform(store, loops["social_posting"],
                                         platform_limits, now))
    /\ PostingFrame

\* the post operation's own steps
PostOperationStep(p) ==
    /\ proc[p].api = "post"
    /\ \/ ResumeCheck(p)
       \/ \E raised \in BOOLEAN : ResumeOp(p, raised)
       \/ ResumeRead(p)
       \/ ResumeIncr(p)
       \/ ResumeSet(p)

\* the sleep after the post returns
PauseReturns(p) ==
    /\ IsIdle(p)
    /\ proc[p].api = "post"
    /\ loops["social_posting"].pc = "cycle"
    /\ PostingStep(p, next_platform(store, loops["social_posting"],
                                    platform_limits, now))
    /\ PostingFrame

\* the hourly counts of the platforms when the loop starts: none, or the
\* platform's hourly limit
SeededPlatforms(S, full, t) ==
    Seeded(Seeded(Seeded(S, Platforms[1], "hourly",
                         IF full[1] THEN LimitOf(DefaultLimits, Platforms[1], "hourly")
                         ELSE 0, t),
                  Platforms[2], "hourly",
                  IF full[2] THEN LimitOf(DefaultLimits, Platforms[2], "hourly")
                  ELSE 0, t),
           Platforms[3], "hourly",
           IF full[3] THEN LimitOf(DefaultLimits, Platforms[3], "hourly") ELSE 0, t)

\* start() has created the task of the social posting loop, the one task
\* enabled
PostingInit ==
    /\ now = CHOOSE t \in Instants : \A u \in Instants : t <= u
    /\ \E up \in BOOLEAN, full \in [1..Len(Platforms) -> BOOLEAN] :
          store = SeededPlatforms(connect(NewClient(up), up).S, full, now)
    /\ conn = ConnIdle
    /\ last = NoCall
    /\ hist = [k \in StoreKeys |-> NoSet]
    /\ scen = "posting"
    /\ platform_limits = DefaultLimits
    /\ proc = [p \in {"c1"} |-> ProcIdle]
    /\ called = <<>>
    /\ target = Platforms[1]
    /\ data_client = store
    /\ out = NoOutcome
    /\ env = NoFaults
    /\ running = TRUE
    /\ tasks = <<"social_posting">>
    /\ scheduled_tasks = [n \in DOMAIN DefaultTasks |-> n = "social_posting"]
    /\ system_status = [NewStatus EXCEPT !.started_at = TRUE]
    /\ loops = [n \in LoopNames |->
                   IF n = "social_posting" THEN [NoLoop EXCEPT !.pc = "ready"]
                   ELSE NoLoop]
    /\ main = [NoMain EXCEPT !.pc = "main_sleep", !.initialized = TRUE]
    /\ shut = [i \in Invokers |-> NoShutdown]
    /\ closes = NoCloses
    /\ health = NoHealth
    /\ ready = <<>>

PostingNext ==
    \/ \E p \in DOMAIN proc : CycleBegins(p)
    \/ \E p \in DOMAIN proc : PostingResumeCheck(p)
    \/ \E p \in DOMAIN proc, raised \in BOOLEAN : ResumeTopic(p, raised)
    \/ \E p \in DOMAIN proc, content \in Contents : ResumeContent(p, content)
    \/ \E p \in DOMAIN proc : PostOperationStep(p)
    \/ \E p \in DOMAIN proc : PauseReturns(p)
    \/ Advance

SpecPosting == PostingInit /\ [][PostingNext]_vars

\* C21: while the loop handles a platform for which is_action_allowed
\* reported allowed = false, the AI client is not asked for content and the
\* platform's post operation is not called
C21_SkipsBlocked ==
    \A p \in DOMAIN proc :
        proc[p].gate = "blocked" => ~proc[p].asked /\ proc[p].api # "post"

(***************************************************************************)
(* Properties of the rate limiter.                                         *)
(***************************************************************************)
\* caller p's call of api has returned or raised
Finished(p, api) ==
    proc[p].pc = "idle" /\ proc[p].api = api /\ proc[p].outcome # "none"

\* caller p's check_rate_limit of a configured period has returned
Checked(p) == Finished(p, "check_rate_limit") /\ proc[p].res.key # ""

\* the limit configured for the period of p's call
LimitFor(p) == LimitOf(platform_limits, lower(proc[p].platform), proc[p].period)

\* C3 (as amended): for every platform and period with configured limit L,
\* after n increment_usage calls made one after another within one bucket
\* window, check_rate_limit returns the count n and the limit L, with
\* LimitExceeded when n >= L, LimitReached when 0.9 * L <= n < L, and
\* Allowed when n < 0.9 * L.
C3_Thresholds ==
    \A p \in DOMAIN proc :
        Checked(p) =>
            LET n == proc[p].calls
                L == LimitFor(p)
                r == proc[p].res
            IN /\ r.current = n
               /\ r.limit = L
               /\ n >= L => r.result = "limit_exceeded"
               /\ (n < L /\ 10 * n >= 9 * L) => r.result = "limit_reached"
               /\ 10 * n < 9 * L => r.result = "allowed"

\* C3 as stated: after L calls check_rate_limit returns LimitExceeded, after
\* L - 1 calls LimitReached, after fewer calls Allowed.
C3_AsStated ==
    \A p \in DOMAIN proc :
        Checked(p) =>
            LET n == proc[p].calls
                L == LimitFor(p)
                r == proc[p].res
            IN /\ n = L => r.result = "limit_exceeded"
               /\ n = L - 1 => r.result = "limit_reached"
               /\ n < L - 1 => r.result = "allowed"

C3_Witness ==
    \E p \in DOMAIN proc :
        /\ Checked(p)
        /\ proc[p].calls = LimitFor(p) - 1
        /\ proc[p].res.result = "limit_reached"

\* the periods of p's is_action_allowed whose check reported LimitExceeded
ExceededIn(p) ==
    {i \in 1..Len(proc[p].details) :
        proc[p].details[i].res.result = "limit_exceeded"}

\* the details of p's is_action_allowed hold one check of every period
\* configured for the platform, in the order of configuration
CoversPeriods(p) ==
    LET periods == PeriodsOf(platform_limits, lower(proc[p].platform)) IN
    /\ Len(proc[p].details) = Len(periods)
    /\ \A i \in 1..Len(periods) :
          /\ proc[p].details[i].period = periods[i]
          /\ proc[p].details[i].res.limit =
                LimitOf(platform_limits, lower(proc[p].platform), periods[i])
          /\ proc[p].details[i].res.current =
                StoredCount(store, proc[p].details[i].res.key)

\* C4: is_action_allowed checks every period configured for the platform;
\* it returns allowed = false whenever at least one of them reports
\* LimitExceeded, whatever the others report, and allowed = true only when
\* none does.
C4_Conjunctive ==
    \A p \in DOMAIN proc :
        (Finished(p, "is_action_allowed")
            /\ lower(proc[p].platform) \in DOMAIN platform_limits) =>
            /\ CoversPeriods(p)
            /\ proc[p].allowed <=> ExceededIn(p) = {}

C4_Witness ==
    \E p \in DOMAIN proc :
        /\ Finished(p, "is_action_allowed")
        /\ ~proc[p].allowed
        /\ ExceededIn(p) # {}
        /\ \E i \in 1..Len(proc[p].details) :
              proc[p].details[i].res.current < proc[p].details[i].res.limit

\* the counters p's execute_with_rate_limit found when it was called are
\* what they were
EntryCountsKept(p) ==
    \A i \in 1..Len(proc[p].entry) :
        StoredCount(store, proc[p].entry[i].key) = proc[p].entry[i].count

\* C5: when the wrapped operation raises, execute_with_rate_limit calls
\* increment_usage for no period and leaves the platform's counters as they
\* were; when it returns, increment_usage is called once for every
\* configured period, in order, and each of these counters is 1 more than
\* it was.
C5_IncrementOnSuccess ==
    \A p \in DOMAIN proc :
        Finished(p, "execute_with_rate_limit") =>
            LET P       == proc[p]
                pl      == lower(P.platform)
                periods == IF pl \in DOMAIN platform_limits
                           THEN PeriodsOf(platform_limits, pl) ELSE <<>>
            IN /\ P.outcome = "op_raised" =>
                     P.invoked /\ P.used = <<>> /\ EntryCountsKept(p)
               /\ P.outcome = "returned" =>
                     /\ P.invoked
                     /\ Len(P.used) = Len(periods)
                     /\ \A i \in 1..Len(periods) :
                           /\ P.used[i].period = periods[i]
                           /\ P.used[i].ret = P.used[i].before + 1
                           /\ StoredCount(store, P.used[i].key) = P.used[i].before + 1

C5_Witness ==
    \E p \in DOMAIN proc :
        /\ Finished(p, "execute_with_rate_limit")
        /\ proc[p].outcome = "returned"
        /\ Len(proc[p].used) = 2
        /\ proc[p].used[1].before >= 1

\* C6: when a period's check reports LimitExceeded, execute_with_rate_limit
\* raises RateLimitExceeded with a message naming a period whose counter is
\* at or over its limit, the wrapped operation is not invoked and no
\* counter changes; it raises RateLimitExceeded in no other case.
C6_DeniedRaises ==
    \A p \in DOMAIN proc :
        Finished(p, "execute_with_rate_limit") =>
            LET P == proc[p] IN
            /\ P.outcome = "rate_limit_exceeded" <=> ExceededIn(p) # {}
            /\ P.outcome = "rate_limit_exceeded" =>
                  /\ ~P.invoked
                  /\ P.used = <<>>
                  /\ EntryCountsKept(p)
                  /\ P.message = Message(P.platform, "post", P.blocked_by)
                  /\ \E i \in ExceededIn(p) :
                        /\ P.blocked_by = P.details[i].period
                        /\ StoredCount(store, P.details[i].res.key)
                              >= LimitOf(platform_limits, lower(P.platform),
                                         P.details[i].period)

C6_Witness ==
    \E p \in DOMAIN proc :
        /\ Finished(p, "execute_with_rate_limit")
        /\ proc[p].outcome = "rate_limit_exceeded"
        /\ proc[p].blocked_by = "hourly"
        /\ ~proc[p].invoked

\* p's check_rate_limit of the hourly period was made in an hour in which
\* no increment_usage call was made, after an hour in which the calls
\* reached the hourly limit
Rolled(p) ==
    /\ Checked(p)
    /\ proc[p].period = "hourly"
    /\ proc[p].calls = 0
    /\ Calls(<<"hourly", BucketOf("hourly", proc[p].t) - 1>>) >= LimitFor(p)

\* C7: a check_rate_limit made after the hour boundary, in an hour with no
\* increment_usage call yet, reads a key other than the one of the hour
\* before and reports a count of 0 and Allowed, although the counter of the
\* hour before reached the hourly limit and no reset_usage was called.
C7_Rollover ==
    \A p \in DOMAIN proc :
        Rolled(p) =>
            /\ proc[p].res.current = 0
            /\ proc[p].res.result = "allowed"
            /\ StoredCount(store, proc[p].res.key) = 0

C7_Witness ==
    \E p \in DOMAIN proc :
        /\ Rolled(p)
        /\ proc[p].res.current = 0
        /\ now = 13183201

\* the step is the delete of a reset_usage on key
ResetOf(key) ==
    \E p \in DOMAIN proc :
        /\ proc'[p] # proc[p]
        /\ proc'[p].pc = "w_delete"
        /\ proc'[p].key = key

\* C8: within one bucket the stored count never decreases and is never
\* negative, however increment_usage and check_rate_limit calls interleave;
\* only reset_usage takes it back (a new bucket has a new key).
C8_Monotone ==
    [][\A key \in DOMAIN store.redis \cup DOMAIN store.files :
          \/ ResetOf(key)
          \/ /\ StoredCount(store', key) >= StoredCount(store, key)
             /\ StoredCount(store', key) >= 0]_vars

\* caller p calls check_rate_limit in this step
ChecksNow(p) ==
    /\ IsIdle(p)
    /\ proc'[p] # proc[p]
    /\ proc'[p].api = "check_rate_limit"

\* the period of p's call has no limit: the platform is unknown, or the
\* period is not among the platform's
Unconfigured(P) == ~Configured(platform_limits, lower(P.platform), P.period)

\* C12: check_rate_limit for a platform that is not configured, or for a
\* period not configured for the platform, returns Allowed with count 0 and
\* limit 999999 in the step of the call: it awaits no read of the store and
\* leaves the store as it was.
C12_Unconfigured ==
    [][\A p \in DOMAIN proc :
          ChecksNow(p) /\ Unconfigured(proc'[p]) =>
             /\ proc'[p].pc = "idle"
             /\ proc'[p].outcome = "returned"
             /\ proc'[p].res.result = "allowed"
             /\ proc'[p].res.current = 0
             /\ proc'[p].res.limit = 999999
             /\ store' = store]_vars

\* no backend serves a read: the primary, if the store is Connected,
\* raises, and the local files cannot be read
Unreadable == env.io /\ (Connected(store) => env.fail)

\* a counter of the platform's current buckets is at its limit
AtLimit(platform) ==
    \E period \in CountPeriods :
       /\ Configured(platform_limits, lower(platform), period)
       /\ StoredCount(store, _get_time_window_key(lower(platform), period,
                                                  "post", now))
             >= LimitOf(platform_limits, lower(platform), period)

\* C13: while the store cannot be read, check_rate_limit returns Allowed
\* and is_action_allowed returns allowed = true, whatever the counters
\* hold.
C13_FailOpen ==
    Unreadable =>
       \A p \in DOMAIN proc :
          /\ Finished(p, "check_rate_limit") => proc[p].res.result = "allowed"
          /\ Finished(p, "is_action_allowed") => proc[p].allowed

\* C13 witness: is_action_allowed has returned true, after a check of
\* every period, while the store could not be read and a counter was at
\* its limit
C13_Witness ==
    /\ Unreadable
    /\ AtLimit(target)
    /\ \E p \in DOMAIN proc :
          /\ Finished(p, "is_action_allowed")
          /\ Len(proc[p].details) = 2
          /\ proc[p].allowed

\* with readable backends the same counters deny the action
C13_Denied ==
    /\ ~Unreadable
    /\ \E p \in DOMAIN proc : Finished(p, "is_action_allowed") /\ ~proc[p].allowed

\* C12 witness: check_rate_limit has returned for an unknown platform
\* while a counter is stored
C12_Witness ==
    \E p \in DOMAIN proc :
       /\ Finished(p, "check_rate_limit")
       /\ lower(proc[p].platform) \notin DOMAIN platform_limits
       /\ proc[p].res.limit = 999999
       /\ DOMAIN store.redis \cup DOMAIN store.files # {}

\* check_rate_limit has returned for a period the platform has no limit for
C12_WitnessPeriod ==
    \E p \in DOMAIN proc :
       /\ Finished(p, "check_rate_limit")
       /\ lower(proc[p].platform) \in DOMAIN platform_limits
       /\ Unconfigured(proc[p])
       /\ proc[p].res.limit = 999999

(***************************************************************************)
(* The health check.                                                       *)
(***************************************************************************)
\* counting the status fallback as healthy
IsHealthy_lenient(status) == status \in {"connected", "active", "fallback"}

IsHealthy(status) == status \in {"connected", "active"}

RECURSIVE CountHealthy(_, _)
\* the loop over modules_status.items(), from the i-th module on
CountHealthy(modules_status, i) ==
    IF i > Len(ModuleOrder) THEN 0
    ELSE (IF ModuleOrder[i] \in DOMAIN modules_status
             /\ IsHealthy(modules_status[ModuleOrder[i]])
          THEN 1 ELSE 0)
         + CountHealthy(modules_status, i + 1)

Min(a, b) == IF a < b THEN a ELSE b

Max(a, b) == IF a > b THEN a ELSE b

\* max(0, healthy / total * 100 - penalty) as the fraction num / den
OverallHealth(healthy, total, penalty, errors) ==
    IF total > 0
    THEN [checked |-> TRUE, errors |-> errors,
          num |-> Max(0, healthy * 100 - penalty * total), den |-> total]
    ELSE [checked |-> TRUE, errors |-> errors, num |-> Max(0, 0 - penalty), den |-> 1]

_perform_health_check(status) ==
    OverallHealth(CountHealthy(status.modules_status, 1),
                  Cardinality(DOMAIN status.modules_status),
                  Min(status.errors * 5, 50), status.errors)

\* the modules of the statuses a health check is given
HealthModules == {ModuleOrder[i] : i \in 1..4}

ModuleStatuses == {"connected", "fallback", "active", "error"}

HealthFrame ==
    UNCHANGED <<store_vars, rl_vars, out, env, running, tasks, scheduled_tasks,
                loops, main, shut, closes, ready>>

\* _perform_health_check() is called
PerformHealthCheck ==
    /\ health' = _perform_health_check(system_status)
    /\ UNCHANGED system_status
    /\ HealthFrame

\* an error is appended to system_status["errors"]
AppendError ==
    /\ system_status.errors < MaxErrors
    /\ system_status' = [system_status EXCEPT !.errors = @ + 1]
    /\ health' = NoHealth
    /\ HealthFrame

HealthInit ==
    /\ store = NewClient(FALSE)
    /\ now = 0
    /\ conn = ConnIdle
    /\ last = NoCall
    /\ hist = [k \in StoreKeys |-> NoSet]
    /\ scen = "values"
    /\ platform_limits = DefaultLimits
    /\ proc = <<>>
    /\ called = <<>>
    /\ target = ""
    /\ data_client = NewClient(FALSE)
    /\ out = NoOutcome
    /\ env = NoFaults
    /\ running = FALSE
    /\ tasks = <<>>
    /\ scheduled_tasks = DefaultTasks
    /\ \E ms \in SUBSET HealthModules :
          \E st \in [ms -> ModuleStatuses] :
             system_status = [started_at |-> TRUE, modules_status |-> st, errors |-> 0]
    /\ loops = [n \in LoopNames |-> NoLoop]
    /\ main = NoMain
    /\ shut = [i \in Invokers |-> NoShutdown]
    /\ closes = NoCloses
    /\ health = NoHealth
    /\ ready = <<>>

HealthNext == PerformHealthCheck \/ AppendError

SpecHealth == HealthInit /\ [][HealthNext]_vars

\* the modules whose status is connected or active
HealthyModules ==
    {m \in DOMAIN system_status.modules_status :
        system_status.modules_status[m] \in {"connected", "active"}}

\* C16: overall_health is max(0, healthy / total * 100 - min(errors * 5,
\* 50)), a module being healthy exactly when its status is connected or
\* active; it is 65 for 4 modules of which 3 are healthy and 2 errors, and
\* it lies between 0 and 100.  (overall_health is num / den, den > 0.)
C16_OverallHealth ==
    health.checked =>
       LET total   == Cardinality(DOMAIN system_status.modules_status)
           healthy == Cardinality(HealthyModules)
           penalty == IF system_status.errors * 5 < 50
                      THEN system_status.errors * 5 ELSE 50
       IN /\ health.den > 0
          /\ total > 0 =>
                /\ health.den = total
                /\ \/ health.num = healthy * 100 - penalty * total
                   \/ health.num = 0 /\ healthy * 100 - penalty * total < 0
          /\ total = 0 => health.num = 0
          /\ total = 4 /\ healthy = 3 /\ system_status.errors = 2 =>
                health.num = 65 * health.den
          /\ 0 <= health.num /\ health.num <= 100 * health.den

\* C16 witness: a health check of 4 modules, 3 of them healthy, after 2
\* errors
C16_Witness ==
    /\ health.checked
    /\ Cardinality(DOMAIN system_status.modules_status) = 4
    /\ Cardinality(HealthyModules) = 3
    /\ system_status.errors = 2
    /\ health.num = 260 /\ health.den = 4

(***************************************************************************)
(* The system: main(), start() and initialize(), the task loops and        *)
(* shutdown(), as coroutines of one event loop.  A coroutine runs from the *)
(* await it was suspended at to its next await.  The event loop runs the   *)
(* tasks that were created or cancelled in the order of its ready queue; a *)
(* coroutine that awaits a sleep or a call of a collaborator runs again    *)
(* when that completes, at any time.                                       *)
(*   scen  "startup": the connectivity checks of initialize() may fail,    *)
(*         and signals arrive while it runs                                *)
(*         "closing": the closes of shutdown() may fail                    *)
(*         a loop's name: that loop's awaits and sleeps complete, the      *)
(*         other loops stay in the first await of their first cycle        *)
(***************************************************************************)
\* the fields of the system and its coroutines, as one record
Sys ==
    [running |-> running, tasks |-> tasks, status |-> system_status,
     loops |-> loops, main |-> main, shut |-> shut, closes |-> closes,
     health |-> health, ready |-> ready]

SysFrame == UNCHANGED <<store_vars, rl_vars, out, env, scheduled_tasks>>

\* the system becomes a
Becomes(a) ==
    /\ running' = a.running
    /\ tasks' = a.tasks
    /\ system_status' = a.status
    /\ loops' = a.loops
    /\ main' = a.main
    /\ shut' = a.shut
    /\ closes' = a.closes
    /\ health' = a.health
    /\ ready' = a.ready
    /\ SysFrame

InQueue(q, c) == \E i \in 1..Len(q) : q[i] = c

\* loop.call_soon: c's next step is queued, unless it is queued already
Enqueue(a, c) ==
    IF InQueue(a.ready, c) THEN a ELSE [a EXCEPT !.ready = Append(@, c)]

\* the event loop takes coroutine c, from its queue if it is queued
Taken(a, c) ==
    IF a.ready # <<>> /\ Head(a.ready) = c THEN [a EXCEPT !.ready = Tail(@)] ELSE a

\* modules_status[module] = status
SetStatus(a, module, status) ==
    [a EXCEPT !.status.modules_status =
        [m \in DOMAIN @ \cup {module} |-> IF m = module THEN status ELSE @[m]]]

\* a connectivity check's outcome: its status, and an error appended on failure
Tested(a, module, ok, good) ==
    IF ok THEN SetStatus(a, module, good)
    ELSE SetStatus([a EXCEPT !.status.errors = @ + 1], module, "error")

(***************************************************************************)
(* shutdown()                                                              *)
(***************************************************************************)
\* task.cancel(): no effect on a task that is done
cancel(a, n) ==
    IF a.loops[n].pc = "ended" THEN a
    ELSE Enqueue([a EXCEPT !.loops[n].must_cancel = TRUE], n)

RECURSIVE cancel_tasks(_, _)
\* for task in self.tasks: task.cancel(), from the i-th task on
cancel_tasks(a, i) ==
    IF i > Len(a.tasks) THEN a
    ELSE cancel_tasks(cancel(a, a.tasks[i]), i + 1)

CloseIndex(c) == CHOOSE k \in 1..Len(Collaborators) : Collaborators[k] = c

\* stop_bot(): the bot is closed if it runs
stop_bot(a) ==
    IF a.main.bot = "running" THEN [a EXCEPT !.main.bot = "stopped"] ELSE a

\* invocation i calls the k-th close and awaits it
call_close(a, i, k) ==
    [(IF k = 1 THEN stop_bot(a) ELSE a) EXCEPT
        !.shut[i].pc = Collaborators[k],
        !.shut[i].trace = Append(@, Collaborators[k]),
        !.closes[Collaborators[k]] = @ + 1]

\* log_system_shutdown(), and shutdown() returns; main() returns after it
shutdown_returns(a, i) ==
    [a EXCEPT !.shut[i].pc = "done",
              !.shut[i].trace = Append(@, "log"),
              !.main.pc = IF i = "main" THEN "exited" ELSE @]

\* after the k-th close: the next close, or the end of shutdown()
close_returned(a, i, k) ==
    IF k < Len(Collaborators) THEN call_close(a, i, k + 1)
    ELSE shutdown_returns(a, i)

\* an exception of the k-th close that leaves shutdown()'s try at once
after_close_aborting(a, i, k, raised) ==
    IF raised
    THEN [a EXCEPT !.shut[i].pc = "done",
                   !.shut[i].failed = @ \cup {Collaborators[k]},
                   !.main.pc = IF i = "main" THEN "exited" ELSE @]
    ELSE close_returned(a, i, k)

\* the k-th close has returned, or has raised into its own except clause
after_close(a, i, k, raised) ==
    close_returned(
        [a EXCEPT !.shut[i].failed =
            IF raised THEN @ \cup {Collaborators[k]} ELSE @], i, k)

\* the tasks have been cancelled: gather them if there are any
shutdown_gathers(a, i) ==
    IF a.tasks # <<>> THEN [a EXCEPT !.shut[i].pc = "gather"]
    ELSE call_close(a, i, 1)

\* shutdown() from its first line to its first await
shutdown_begins(a, i) ==
    shutdown_gathers(
        cancel_tasks(
            [a EXCEPT !.running = FALSE,
                      !.shut[i].trace = <<"running_false", "cancel">>], 1), i)

\* shutdown() resumes from the await it was suspended at
shutdown_resumes(a, i, raised) ==
    IF a.shut[i].pc = "begin" THEN shutdown_begins(a, i)
    ELSE IF a.shut[i].pc = "gather"
    THEN call_close([a EXCEPT !.shut[i].trace = Append(@, "gather")], i, 1)
    ELSE after_close(a, i, CloseIndex(a.shut[i].pc), raised)

\* every task of self.tasks is done
AllDone(a) == \A k \in 1..Len(a.tasks) : a.loops[a.tasks[k]].pc = "ended"

\* the awaits of shutdown() on a close
Closing(pc) == \E k \in 1..Len(Collaborators) : Collaborators[k] = pc

(***************************************************************************)
(* The task loops.  A cycle awaits its call sites in turn, then sleeps.    *)
(***************************************************************************)
\* the awaited call sites of one cycle: a platform each in social posting,
\* a service each in engagement monitoring, the daily, weekly and monthly
\* report in analytics, run_learning_cycle in learning; the sales and the
\* health check cycle await nothing before their sleep
Sites(n) ==
    CASE n = "social_posting" -> 3
      [] n = "engagement_monitoring" -> 2
      [] n = "analytics_generation" -> 3
      [] n = "learning_cycle" -> 1
      [] OTHER -> 0

\* where an exception of a call site is caught: by the try around the
\* platform or service, or by the try around the cycle
Guard(n) ==
    IF n \in {"social_posting", "engagement_monitoring"} THEN "inner" ELSE "cycle"

\* the call site after site, 0 for none: the weekly report is awaited on a
\* Monday only, the monthly one on the first of a month only
next_site(n, site, o) ==
    IF n = "analytics_generation"
    THEN IF site = 1 /\ o.monday THEN 2
         ELSE IF site < 3 /\ o.first THEN 3
         ELSE 0
    ELSE IF site < Sites(n) THEN site + 1 ELSE 0

\* the loop's task is done; left is the await it was suspended at
loop_ends(a, n, how) ==
    [a EXCEPT !.loops[n].pc = "ended", !.loops[n].how = how,
              !.loops[n].left = a.loops[n].pc,
              !.loops[n].must_cancel = FALSE]

\* the cycle goes on to a call site, or to the sleep of the loop's interval
loop_goes_on(a, n, site) ==
    IF site = 0 THEN [a EXCEPT !.loops[n].pc = "sleep", !.loops[n].site = 0]
    ELSE [a EXCEPT !.loops[n].pc = "cycle", !.loops[n].site = site]

\* the health check cycle calls _perform_health_check
cycle_checks(a, n) ==
    IF n = "health_check"
    THEN [a EXCEPT !.health = _perform_health_check(a.status)]
    ELSE a

\* while self.running: a cycle begins, up to its first await
loop_iterates(a, n) ==
    IF a.running
    THEN loop_goes_on(
            cycle_checks(
                [a EXCEPT !.loops[n].cycles = @ + 1,
                          !.loops[n].caught = "none",
                          !.loops[n].logged = 0,
                          !.loops[n].slept =
                              IF a.loops[n].pc = "ready" THEN "" ELSE a.loops[n].pc], n),
            n, IF Sites(n) > 0 THEN 1 ELSE 0)
    ELSE loop_ends(a, n, "completed")

\* an exception of a call site that is only caught around the while loop
site_returns_ending(a, n, o) ==
    IF ~o.raise THEN loop_goes_on(a, n, next_site(n, a.loops[n].site, o))
    ELSE IF Guard(n) = "inner"
    THEN loop_goes_on([a EXCEPT !.loops[n].caught = "inner",
                                !.loops[n].logged = @ + 1], n,
                      next_site(n, a.loops[n].site, o))
    ELSE loop_ends([a EXCEPT !.loops[n].logged = @ + 1], n, "error")

\* the awaited call site has returned, or has raised: the handler that
\* catches the exception logs it
site_returns(a, n, o) ==
    IF ~o.raise THEN loop_goes_on(a, n, next_site(n, a.loops[n].site, o))
    ELSE IF Guard(n) = "inner"
    THEN loop_goes_on([a EXCEPT !.loops[n].caught = "inner",
                                !.loops[n].logged = @ + 1], n,
                      next_site(n, a.loops[n].site, o))
    ELSE [a EXCEPT !.loops[n].caught = "cycle", !.loops[n].logged = @ + 1,
                   !.loops[n].pc = "backoff", !.loops[n].site = 0]

\* a sleep that returns although the task was cancelled
loop_resumes_sleeping(a, n, o) ==
    IF a.loops[n].must_cancel /\ a.loops[n].pc \notin {"sleep", "backoff"}
    THEN loop_ends(a, n, "cancelled")
    ELSE IF a.loops[n].pc = "cycle" THEN site_returns(a, n, o)
    ELSE loop_iterates(a, n)

\* the loop's task runs: CancelledError is thrown into a cancelled task at
\* the await it is suspended at and leaves the loop through its handler
loop_resumes(a, n, o) ==
    IF a.loops[n].must_cancel THEN loop_ends(a, n, "cancelled")
    ELSE IF a.loops[n].pc = "cycle" THEN site_returns(a, n, o)
    ELSE loop_iterates(a, n)

\* asyncio.create_task of the loop, appended to self.tasks
create_task(a, n) ==
    Enqueue([a EXCEPT !.tasks = Append(@, n), !.loops[n].pc = "ready"], n)

RECURSIVE create_loops(_, _)
\* the creation of the loops from the i-th on
create_loops(a, i) ==
    IF i > Len(LoopOrder) THEN a
    ELSE create_loops(
            IF scheduled_tasks[LoopOrder[i]] THEN create_task(a, LoopOrder[i]) ELSE a,
            i + 1)

_start_scheduled_tasks(a) == create_loops(a, 1)

(***************************************************************************)
(* main(), start(), initialize() and _run_main_loop(), one coroutine.      *)
(***************************************************************************)
\* _test_social_connections up to its await of the Mastodon account
tests_social(a) ==
    [SetStatus(a, "twitter", "connected") EXCEPT !.main.pc = "init_social"]

\* start_discord_bot(): it raises at once without a bot object; otherwise
\* the bot is started in a task of its own and start_bot polls is_bot_running
starts_discord_bot(a, o) ==
    IF o.bot_missing THEN tests_social(Tested(a, "discord", FALSE, "active"))
    ELSE [a EXCEPT !.main.bot = "starting", !.main.pc = "discord_wait"]

\* while not self.is_bot_running: await asyncio.sleep(1)
polls_bot(a) ==
    IF a.main.bot = "running" THEN tests_social(SetStatus(a, "discord", "active"))
    ELSE a

\* _run_main_loop from its first line to its sleep
enters_main_loop(a) == [a EXCEPT !.main.pc = "main_sleep"]

\* initialize() returns True; start() sets running, starts the tasks and
\* enters the main loop
starts(a) ==
    enters_main_loop(
        _start_scheduled_tasks(
            [a EXCEPT !.status.started_at = TRUE, !.main.initialized = TRUE,
                      !.running = TRUE]))

NotDone(a, n) == a.loops[n].pc # "ended"

\* one iteration of _run_main_loop: the done tasks are removed; when running
\* is false start() returns and main()'s finally calls shutdown()
main_loop_iterates(a) ==
    IF a.running
    THEN [a EXCEPT !.tasks = SelectSeq(@, LAMBDA n : NotDone(a, n))]
    ELSE shutdown_begins([a EXCEPT !.main.pc = "shutdown"], "main")

\* main() resumes from the await it was suspended at
main_resumes(a, o) ==
    CASE a.main.pc = "init_store" ->
            starts_discord_bot(
                SetStatus(a, "redis", IF o.ok THEN "connected" ELSE "fallback"), o)
      [] a.main.pc = "discord_wait" -> polls_bot(a)
      [] a.main.pc = "init_social" ->
            [Tested(a, "mastodon", o.ok, "connected") EXCEPT !.main.pc = "init_paypal"]
      [] a.main.pc = "init_paypal" ->
            [Tested(a, "paypal", o.ok, "connected") EXCEPT !.main.pc = "init_ai"]
      [] a.main.pc = "init_ai" -> starts(Tested(a, "ai", o.ok, "connected"))
      [] a.main.pc = "main_sleep" -> main_loop_iterates(a)
      [] a.main.pc = "shutdown" -> shutdown_resumes(a, "main", ~o.ok)

(***************************************************************************)
(* The steps of the event loop and of its environment.                     *)
(***************************************************************************)
\* the outcomes of an awaited call
MainInputs ==
    [ok : IF \/ main.pc = "shutdown"
             \/ /\ scen = "startup"
                /\ main.pc \in {"init_store", "init_social", "init_paypal", "init_ai"}
          THEN BOOLEAN ELSE {TRUE},
     bot_missing : IF scen = "startup" /\ main.pc = "init_store"
                   THEN BOOLEAN ELSE {FALSE}]

\* whether the awaited call site raises, and the day of an analytics cycle
LoopInputs(n) ==
    [raise  : IF loops[n].pc = "cycle" /\ ~loops[n].must_cancel
              THEN BOOLEAN ELSE {FALSE},
     monday : IF n = "analytics_generation" /\ loops[n].pc = "cycle"
                 /\ ~loops[n].must_cancel
              THEN BOOLEAN ELSE {FALSE},
     first  : IF n = "analytics_generation" /\ loops[n].pc = "cycle"
                 /\ ~loops[n].must_cancel
              THEN BOOLEAN ELSE {FALSE}]

\* a close may raise while fewer than MaxCloseFailures have
MayRaise(i) ==
    IF scen = "closing" /\ Closing(shut[i].pc)
          /\ Cardinality(shut[i].failed) < MaxCloseFailures
    THEN BOOLEAN ELSE {FALSE}

\* the invocation of shutdown() a coroutine runs, "" if it runs none
Invocation(c) ==
    IF c \in Invokers THEN (IF c = "main" /\ main.pc # "shutdown" THEN "" ELSE c)
    ELSE ""

\* coroutine c is suspended at an await that can complete: a sleep, a call
\* of a collaborator, or the gather of tasks that are all done
Awaiting(c) ==
    IF Invocation(c) # ""
    THEN \/ Closing(shut[c].pc)
         \/ shut[c].pc = "gather" /\ AllDone(Sys)
    ELSE IF c = "main"
    THEN main.pc \in {"init_store", "discord_wait", "init_social", "init_paypal",
                      "init_ai", "main_sleep"}
    ELSE /\ c \in LoopNames
         /\ scen = c
         /\ loops[c].pc \in {"cycle", "sleep", "backoff"}

\* the event loop can run coroutine c: it is the first of the ready queue,
\* or what it awaits has completed
Runs(c) ==
    \/ ready # <<>> /\ Head(ready) = c
    \/ ~InQueue(ready, c) /\ Awaiting(c)

\* asyncio.run(main()): the signal handlers are installed, start() and
\* initialize() run up to the await of the store's connect
MainCall ==
    /\ main.pc = "none"
    /\ Becomes([Sys EXCEPT !.main.pc = "init_store"])

\* the event loop runs main()
MainStep ==
    /\ Runs("main")
    /\ \E o \in MainInputs :
          /\ main.pc = "shutdown" => ~o.ok \in MayRaise("main")
          /\ Becomes(main_resumes(Taken(Sys, "main"), o))

\* the event loop runs the task of loop n
LoopStep(n) ==
    /\ Runs(n)
    /\ loops[n].must_cancel \/ ~running \/ loops[n].pc = "cycle"
          \/ loops[n].cycles < MaxCycles
    /\ \E o \in LoopInputs(n) : Becomes(loop_resumes(Taken(Sys, n), n, o))

\* the event loop runs the shutdown() a signal handler created
ShutdownStep(i) ==
    /\ Runs(i)
    /\ \E raised \in MayRaise(i) : Becomes(shutdown_resumes(Taken(Sys, i), i, raised))

\* the Discord bot, started in a task of its own, logs in and is ready, or
\* its login fails
BotEvent ==
    /\ main.bot = "starting"
    /\ \E b \in (IF scen = "startup" THEN {"running", "failed"} ELSE {"running"}) :
          Becomes([Sys EXCEPT !.main.bot = b])

\* the queue with c inserted after its first k entries
Inserted(q, c, k) == SubSeq(q, 1, k) \o <<c>> \o SubSeq(q, k + 1, Len(q))

\* SIGINT or SIGTERM: signal_handler creates a task of shutdown().  The
\* handler runs between two instructions of the running step, before or
\* after the tasks that step creates.
Signal ==
    /\ main.pc \notin {"none", "exited"}
    /\ main.signals < MaxSignals
    /\ scen = "startup" => ~main.initialized
    /\ \E k \in 0..Len(ready) :
          Becomes([Sys EXCEPT
              !.main.signals = @ + 1,
              !.shut[SignalNames[main.signals + 1]].pc = "begin",
              !.ready = Inserted(@, SignalNames[main.signals + 1], k)])

SystemInit ==
    /\ store = NewClient(FALSE)
    /\ now = 0
    /\ conn = ConnIdle
    /\ last = NoCall
    /\ hist = [k \in StoreKeys |-> NoSet]
    /\ scen \in {"startup", "closing"} \cup LoopNames
    /\ platform_limits = DefaultLimits
    /\ proc = <<>>
    /\ called = <<>>
    /\ target = ""
    /\ SysOff

SystemNext ==
    \/ MainCall
    \/ MainStep
    \/ \E n \in LoopNames : LoopStep(n)
    \/ \E k \in 1..Len(SignalNames) : ShutdownStep(SignalNames[k])
    \/ BotEvent
    \/ Signal

SpecSystem == SystemInit /\ [][SystemNext]_vars

(***************************************************************************)
(* Startup alone, under fairness: the event loop runs a coroutine that can *)
(* run, and the bot's login ends.                                          *)
(***************************************************************************)
StartupInit == SystemInit /\ scen = "startup"

StartupNext == MainCall \/ MainStep \/ BotEvent \/ \E n \in LoopNames : LoopStep(n)

SpecStartup ==
    /\ StartupInit
    /\ [][StartupNext]_vars
    /\ WF_vars(MainCall)
    /\ WF_vars(MainStep)
    /\ WF_vars(BotEvent)
    /\ \A n \in LoopNames : WF_vars(LoopStep(n))

(***************************************************************************)
(* Properties of the system.                                               *)
(***************************************************************************)
\* the task handles of definition n in the active set
Handles(n) == Cardinality({k \in 1..Len(tasks) : tasks[k] = n})

\* _start_scheduled_tasks has run and no task has been removed since
AfterStart == main.initialized /\ \A n \in LoopNames : loops[n].pc # "ended"

\* C20: after _start_scheduled_tasks every enabled task definition has
\* exactly one task handle in the active set, and no disabled one has any
C20_HandlePerEnabled ==
    AfterStart =>
       \A n \in DOMAIN scheduled_tasks :
          Handles(n) = IF scheduled_tasks[n] THEN 1 ELSE 0

\* the loops that have a handle do have exactly one
C20_HandlePerLoop ==
    AfterStart => \A n \in LoopNames : Handles(n) = 1

\* every module has a status
AllRecorded ==
    /\ DOMAIN system_status.modules_status =
          {ModuleOrder[i] : i \in 1..Len(ModuleOrder)}
    /\ \A m \in DOMAIN system_status.modules_status :
          system_status.modules_status[m] \in ModuleStatuses

\* C19: whichever connectivity checks fail, initialize() records a status
\* for every module and returns true, and the task loops are started
C19_StartupCompletes ==
    (main.pc = "init_store") ~>
        (main.initialized /\ AllRecorded /\ tasks # <<>>)

\* when initialize() does return, it returns true with every status recorded
C19_WhenReturned ==
    main.initialized =>
       /\ AllRecorded
       /\ \A n \in LoopNames : loops[n].pc # "none"

\* initialize() polls a bot whose login has failed
C19_Stuck == main.pc = "discord_wait" /\ main.bot = "failed"

\* an awaited call site of loop n raises in this step, and a handler logs it
Raised(n) == loops[n].pc = "cycle" /\ loops'[n].logged = loops[n].logged + 1

\* loop n, not cancelled, returns from a sleep in this step
Wakes(n, pcs) ==
    /\ loops[n].pc \in pcs
    /\ ~loops[n].must_cancel /\ ~loops'[n].must_cancel
    /\ loops'[n] # loops[n]

C14_CaughtInside ==
    \E n \in LoopNames :
       /\ Guard(n) = "inner" /\ loops[n].caught = "inner" /\ loops[n].pc = "sleep"

ShutdownOrder ==
    <<"running_false", "cancel", "gather", "discord_bot", "ai", "paypal",
      "discord_service", "data_client", "log">>

TasklessOrder ==
    <<"running_false", "cancel", "discord_bot", "ai", "paypal",
      "discord_service", "data_client", "log">>

Prefix(s, t) == Len(s) <= Len(t) /\ \A k \in 1..Len(s) : s[k] = t[k]

\* C17: shutdown() sets running to false, cancels the tasks, awaits them
\* without propagating their exceptions, then closes the Discord bot, the AI
\* service, PayPal, the Discord service and the data client in this order;
\* a close that fails prevents neither the later closes nor the final log
C17_Order ==
    \A i \in Invokers :
       /\ Prefix(shut[i].trace, ShutdownOrder) \/ Prefix(shut[i].trace, TasklessOrder)
       /\ shut[i].pc = "done" => shut[i].trace \in {ShutdownOrder, TasklessOrder}
       /\ Closing(shut[i].pc) => shut[i].trace[Len(shut[i].trace)] = shut[i].pc
       /\ Len(shut[i].trace) >= 3 /\ shut[i].trace[3] = "gather" => AllDone(Sys)

\* C17 witness: a shutdown with tasks whose first close failed is over
C17_Witness ==
    \E i \in Invokers :
       /\ shut[i].pc = "done"
       /\ shut[i].trace = ShutdownOrder
       /\ shut[i].failed = {"discord_bot"}

\* C18: shutdown is idempotent: whoever invokes it again, a second
\* invocation closes no collaborator again
C18_Idempotent == \A c \in DOMAIN closes : closes[c] <= 1

\* the invocations of the signal handler and of main()'s finally are over
C18_TwoShutdowns == shut["signal1"].pc = "done" /\ shut["main"].pc = "done"

(***************************************************************************)
(* Properties of the counters' expiry.                                     *)
(***************************************************************************)
\* the expiry time the backend in use holds for key, NoExpiry for none
ExpiryOf(S, key) ==
    IF Connected(S)
    THEN IF key \in DOMAIN S.redis THEN S.redis[key].exp ELSE NoExpiry
    ELSE IF key \in DOMAIN S.files THEN S.files[key].expires_at ELSE NoExpiry

\* the increment of caller p's increment_usage returns in this step
IncrementReturns(p) == proc[p].pc = "w_incr" /\ proc'[p] # proc[p]

\* C22: increment_usage writes the expiry (the period's TTL from now)
\* exactly when its increment returned amount, and that write leaves the
\* stored count (the caller's own increment and those that other
\* increment_usage calls have added since) as it is
C22_ExpiryWrite ==
    [][\A p \in DOMAIN proc :
          IncrementReturns(p) =>
             /\ proc'[p].pc = "w_set" <=> proc[p].new_count = proc[p].amount
             /\ proc'[p].pc = "w_set" =>
                   /\ ExpiryOf(store', proc[p].key)
                         = now + _get_ttl_seconds(proc[p].period)
                   /\ StoredCount(store, proc[p].key) >= proc[p].new_count =>
                         StoredCount(store', proc[p].key)
                            = StoredCount(store, proc[p].key)]_vars

\* C23: when an increment_usage has returned, the counter entry it
\* incremented carries an expiry, on the primary and on the local files,
\* whether the call was the bucket's first or a later one
C23_ExpiryKept ==
    \A p \in DOMAIN proc :
        Finished(p, "increment_usage") =>
            \A i \in 1..Len(proc[p].used) :
                ExpiryOf(store, proc[p].used[i].key) # NoExpiry

(***************************************************************************)
(* The counter keys at instants on both sides of the window boundaries.    *)
(***************************************************************************)
\* clock values, counted in seconds from Monday 2024-01-01 00:00:00:
\* Sunday 2024-12-29 23:59:59, Monday 2024-12-30 00:00:01, 13:59:59 and
\* 14:00:01, Tuesday 2024-12-31 23:59:59, Wednesday 2025-01-01 00:00:01,
\* Sunday 2025-01-05 23:59:59, Monday 2025-01-06 00:00:01, 2025-01-30
\* 00:00:01, Monday 2025-12-29 00:00:01, 2025-12-30 14:00:01
WindowInstants ==
    {363 * 86400 + 86399, 364 * 86400 + 1, 364 * 86400 + 50399,
     364 * 86400 + 50401, 365 * 86400 + 86399, 366 * 86400 + 1,
     370 * 86400 + 86399, 371 * 86400 + 1, 395 * 86400 + 1, 728 * 86400 + 1,
     729 * 86400 + 50401}

\* the key of a call, kept for the comparison with the next
KeyCall(P) == [period |-> P.period, key |-> P.key, t |-> P.t]

\* _get_time_window_key(platform, period, "post") is called
WindowKeyCall(p, platform, period) ==
    /\ scen = "windows"
    /\ proc' = [proc EXCEPT ![p] =
                   [Enter("_get_time_window_key", platform)
                       EXCEPT !.period = period, !.t = now,
                              !.key = _get_time_window_key(platform, period,
                                                           "post", now),
                              !.outcome = "returned",
                              !.used = IF proc[p].api = "none" THEN <<>>
                                       ELSE <<KeyCall(proc[p])>>]]
    /\ UNCHANGED <<store, now, platform_limits, called>>
    /\ RLFrame

\* the clock passes to a later instant
WindowAdvance ==
    /\ \E t \in WindowInstants : t > now /\ now' = t
    /\ UNCHANGED <<store, platform_limits, proc, called>>
    /\ RLFrame

WindowInit ==
    /\ store = NewClient(FALSE)
    /\ now \in WindowInstants
    /\ conn = ConnIdle
    /\ last = NoCall
    /\ hist = [k \in StoreKeys |-> NoSet]
    /\ scen = "windows"
    /\ platform_limits = DefaultLimits
    /\ proc = [p \in {"c1"} |-> ProcIdle]
    /\ called = <<>>
    /\ target = "twitter"
    /\ SysOff

WindowNext ==
    \/ \E p \in DOMAIN proc, period \in {AllPeriods[i] : i \in 1..Len(AllPeriods)} :
          WindowKeyCall(p, target, period)
    \/ WindowAdvance

SpecWindow == WindowInit /\ [][WindowNext]_vars

\* caller p has asked for the key of one period at two instants
TwoKeys(p) ==
    /\ proc[p].api = "_get_time_window_key"
    /\ Len(proc[p].used) = 1
    /\ proc[p].used[1].period = proc[p].period

\* C24: for one platform, action and period, the keys at two instants are
\* equal exactly when the instants lie in the same window of the period:
\* the same clock hour, calendar day, Monday-to-Sunday week or calendar
\* month, also for a week that spans a year boundary
C24_KeyIffWindow ==
    \A p \in DOMAIN proc :
        TwoKeys(p) =>
            (proc[p].key = proc[p].used[1].key
                <=> BucketOf(proc[p].period, proc[p].t)
                       = BucketOf(proc[p].period, proc[p].used[1].t))

\* the keys of the week were asked for on 2024-12-31 and on 2025-01-01, and
\* are equal
C24_Witness ==
    \E p \in DOMAIN proc :
        /\ TwoKeys(p)
        /\ proc[p].period = "weekly"
        /\ proc[p].used[1].t = 365 * 86400 + 86399
        /\ proc[p].t = 366 * 86400 + 1
        /\ proc[p].key = proc[p].used[1].key

(***************************************************************************)
(* Concurrent callers of a store in Fallback.  The local methods await the *)
(* file they open, read and write, so a caller's read of a file and its    *)
(* write of it are two steps, between which the other caller may run.      *)
(* called[k] is the key's value when the run begins plus the amounts of    *)
(* the increment calls on k that have returned.  A run's callers increment *)
(* the counter (scen "local_counter") or use the hash ("local_hash").      *)
(***************************************************************************)
\* the key of the counter and the key of the hash
CounterKey == "k1"

HashKey == "k2"

\* the amounts passed to increment
LocalAmounts == {1, 2}

\* the values passed to set_hash
LocalValues == {PyInt(1), PyStr(<<"a">>)}

\* the caller entering op on key, the record of its completed calls kept
EnterLocal(P, op, key) == [Enter(op, "") EXCEPT !.key = key, !.used = P.used]

\* the caller Q awaiting the read r of the hash's file
ReadingHash(r, Q) == [S |-> r.S, P |-> [Q EXCEPT !.pc = "w_hread", !.cur = r.ret]]

\* the caller Q awaiting the end of the write w of the hash's file
WritingHash(w, Q) == [S |-> w.S, P |-> [Q EXCEPT !.pc = "w_hset", !.cur = w.ret]]

LocalFrame == UNCHANGED <<now, platform_limits>> /\ RLFrame

\* increment(key, amount) is called: _increment_local reads the file
LocalIncrementCall(p, amount) ==
    /\ scen = "local_counter"
    /\ IsIdle(p)
    /\ Len(proc[p].used) < MaxLocalCalls
    /\ Step(p, Reading(_get_local(store, CounterKey, now),
                       [EnterLocal(proc[p], "increment", CounterKey)
                           EXCEPT !.amount = amount]))
    /\ called' = called
    /\ LocalFrame

\* _increment_local's read returns: the file is written
LocalResumeRead(p) ==
    /\ scen = "local_counter"
    /\ ResumeRead(p)

\* _increment_local's write returns, and increment returns the new value
LocalIncrementReturns(p) ==
    /\ scen = "local_counter"
    /\ proc[p].pc = "w_incr"
    /\ Local(p, Leave([proc[p] EXCEPT !.used =
                          Append(@, [op |-> "increment", amount |-> proc[p].amount,
                                     ret |-> proc[p].new_count])],
                      "returned"))
    /\ called' = [called EXCEPT ![proc[p].key] = @ + proc[p].amount]
    /\ LocalFrame

\* set_hash(key, field, value) is called: _set_hash_local reads the file
LocalSetHashCall(p, field, value) ==
    /\ scen = "local_hash"
    /\ IsIdle(p)
    /\ Len(proc[p].used) < MaxLocalCalls
    /\ Step(p, ReadingHash(_get_local(store, HashKey, now),
                           [EnterLocal(proc[p], "set_hash", HashKey)
                               EXCEPT !.field = field, !.value = value]))
    /\ called' = called
    /\ LocalFrame

\* _set_hash_local's read returns: the field is set in what was read, and
\* the file is written
LocalResumeHashRead(p) ==
    /\ proc[p].pc = "w_hread"
    /\ Step(p, WritingHash(_set_hash_local_write(store, proc[p].key, proc[p].cur,
                                                 proc[p].field, proc[p].value, now),
                           proc[p]))
    /\ called' = called
    /\ LocalFrame

\* _set_hash_local's write returns, and set_hash returns
LocalSetHashReturns(p) ==
    /\ proc[p].pc = "w_hset"
    /\ Local(p, Leave([proc[p] EXCEPT !.used =
                          Append(@, [op |-> "set_hash", amount |-> 0, ret |-> 0])],
                      "returned"))
    /\ called' = called
    /\ LocalFrame

\* get_hash(key, field) is called; what it returns is what the file holds
\* when it is read
LocalGetHash(p, field) ==
    /\ scen = "local_hash"
    /\ IsIdle(p)
    /\ Step(p, [S |-> get_hash(store, HashKey, field, now, FALSE).S,
                P |-> Leave([EnterLocal(proc[p], "get_hash", HashKey)
                                EXCEPT !.field = field,
                                       !.value = get_hash(store, HashKey, field,
                                                          now, FALSE).ret],
                            "returned")])
    /\ called' = called
    /\ LocalFrame

\* get_all_hash(key) is called
LocalGetAllHash(p) ==
    /\ scen = "local_hash"
    /\ IsIdle(p)
    /\ Step(p, [S |-> get_all_hash(store, HashKey, now, FALSE).S,
                P |-> Leave([EnterLocal(proc[p], "get_all_hash", HashKey)
                                EXCEPT !.value = get_all_hash(store, HashKey,
                                                              now, FALSE).ret],
                            "returned")])
    /\ called' = called
    /\ LocalFrame

\* the store in Fallback (no URL configured), the counter's file absent or
\* holding n
LocalInit(callers) ==
    /\ \E n \in 0..1 :
          /\ store = IF n = 0 THEN NewClient(FALSE)
                     ELSE _set_local(NewClient(FALSE), CounterKey, PyInt(n),
                                     NoExpiry, 0).S
          /\ called = (CounterKey :> n)
    /\ now = 0
    /\ conn = ConnIdle
    /\ last = NoCall
    /\ hist = [k \in StoreKeys |-> NoSet]
    /\ scen \in {"local_counter", "local_hash"}
    /\ platform_limits = DefaultLimits
    /\ proc = [p \in callers |-> ProcIdle]
    /\ target = ""
    /\ SysOff

LocalNext ==
    \/ \E p \in DOMAIN proc, amount \in LocalAmounts : LocalIncrementCall(p, amount)
    \/ \E p \in DOMAIN proc : LocalResumeRead(p)
    \/ \E p \in DOMAIN proc : LocalIncrementReturns(p)
    \/ \E p \in DOMAIN proc, field \in HashFields, value \in LocalValues :
          LocalSetHashCall(p, field, value)
    \/ \E p \in DOMAIN proc : LocalResumeHashRead(p)
    \/ \E p \in DOMAIN proc : LocalSetHashReturns(p)
    \/ \E p \in DOMAIN proc, field \in HashFields : LocalGetHash(p, field)
    \/ \E p \in DOMAIN proc : LocalGetAllHash(p)

\* two coroutines of one process
SpecLocalConc == LocalInit({"c1", "c2"}) /\ [][LocalNext]_vars

\* the increment calls that have returned, by caller and position
Increments ==
    {c \in (DOMAIN proc) \X (1..MaxLocalCalls + 1) :
        /\ c[2] <= Len(proc[c[1]].used)
        /\ proc[c[1]].used[c[2]].op = "increment"}

\* no increment call is under way
NoIncrementUnderWay == \A p \in DOMAIN proc : proc[p].api = "increment" => IsIdle(p)

\* C25: in Fallback, once the increment(k, a_i) coroutines of one process
\* have all completed, however they interleaved, the stored value is the
\* initial value plus the sum of the a_i, and no two calls returned the same
\* new count
C25_Sequential ==
    NoIncrementUnderWay =>
        /\ StoredCount(store, CounterKey) = called[CounterKey]
        /\ \A c, d \in Increments :
              c # d => proc[c[1]].used[c[2]].ret # proc[d[1]].used[d[2]].ret

\* the step is the write of caller p's set_hash
SetHashWrites(p) == proc[p].pc = "w_hread" /\ proc'[p].pc = "w_hset"

\* get_all_hash(k)[field] on the store S
FieldOf(S, field) == DictGet(get_all_hash(S, HashKey, now, FALSE).ret, field)

\* C26: once set_hash(k, f, v) has written, get_hash(k, f) returns v and
\* get_all_hash(k) holds every other field with the value it had, also when
\* set_hash calls for different fields of the key interleave in Fallback
C26_SetHashFrame ==
    [][\A p \in DOMAIN proc :
          SetHashWrites(p) =>
             /\ get_hash(store', HashKey, proc[p].field, now, FALSE).ret
                   = proc[p].value
             /\ \A field \in HashFields \ {proc[p].field} :
                   FieldOf(store', field) = FieldOf(store, field)]_vars

(***************************************************************************)
(* SecurityValidator.sanitize_text.  A text is a sequence of characters;   *)
(* Nul stands for the character '\x00'.  The texts checked are over the    *)
(* characters o, n, =, space, < and Nul.  After html.escape no text over   *)
(* them holds a tag, and of DANGEROUS_PATTERNS only the event handler      *)
(* pattern (on\w+\s*=) can match: the others need a ':', a '(' or a '<'.   *)
(***************************************************************************)
\* the longest text passed
MaxTextLen == 4

\* the largest max_length passed
MaxLength == 4

Nul == "NUL"

TextChars == {"o", "n", "=", " ", "<", Nul}

Texts == UNION {[1..n -> TextChars] : n \in 0..MaxTextLen}

\* text.replace('\x00', '')
RemoveNul(txt) == SelectSeq(txt, LAMBDA c : c # Nul)

\* html.escape of one character (quote=True)
EscapeChar(c) ==
    CASE c = "&"   -> <<"&", "a", "m", "p", ";">>
      [] c = "<"   -> <<"&", "l", "t", ";">>
      [] c = ">"   -> <<"&", "g", "t", ";">>
      [] c = Quote -> <<"&", "q", "u", "o", "t", ";">>
      [] c = "'"   -> <<"&", "#", "x", "2", "7", ";">>
      [] OTHER     -> <<c>>

RECURSIVE html_escape(_)
html_escape(txt) ==
    IF Len(txt) = 0 THEN <<>> ELSE EscapeChar(Head(txt)) \o html_escape(Tail(txt))

\* bleach.clean(strip=True) on a text with none of the allowed tags: a tag
\* is dropped, a '<' that opens no tag is escaped
RECURSIVE bleach_clean(_)
bleach_clean(txt) ==
    IF Len(txt) = 0 THEN <<>>
    ELSE IF Head(txt) = "<"
    THEN IF \E i \in 2..Len(txt) : txt[i] = ">"
         THEN bleach_clean(SubSeq(txt, 1 + (CHOOSE i \in 2..Len(txt) :
                                               /\ txt[i] = ">"
                                               /\ \A j \in 2..(i - 1) : txt[j] # ">"),
                                  Len(txt)))
         ELSE EscapeChar("<") \o bleach_clean(Tail(txt))
    ELSE <<Head(txt)>> \o bleach_clean(Tail(txt))

\* \w on the characters of the texts and of their escapes
IsWord(c) == c \in {"o", "n", "l", "t", "a", "m", "p", "g", "q", "u", "x", "2", "7"}

\* the length of the longest run of characters in chars from position i on
RECURSIVE RunFrom(_, _, _)
RunFrom(txt, i, chars) ==
    IF i <= Len(txt) /\ txt[i] \in chars THEN 1 + RunFrom(txt, i + 1, chars) ELSE 0

WordChars == {c \in TextChars \cup {"l", "t", "&", ";"} : IsWord(c)}

\* the length of the match of on\w+\s*= at position i, 0 for no match: \w+
\* and \s* take the longest runs, and giving characters back opens no match
HandlerAfter(txt, i, w, s) ==
    IF w >= 1 /\ i + 2 + w + s <= Len(txt) /\ txt[i + 2 + w + s] = "="
    THEN 2 + w + s + 1 ELSE 0

HandlerWords(txt, i, w) == HandlerAfter(txt, i, w, RunFrom(txt, i + 2 + w, {" "}))

HandlerAt(txt, i) ==
    IF i + 1 <= Len(txt) /\ txt[i] = "o" /\ txt[i + 1] = "n"
    THEN HandlerWords(txt, i, RunFrom(txt, i + 2, WordChars))
    ELSE 0

\* re.sub(pattern, '', text) for the event handler pattern, from position i
RECURSIVE RemoveHandlers(_, _)
RemoveHandlers(txt, i) ==
    IF i > Len(txt) THEN <<>>
    ELSE IF HandlerAt(txt, i) > 0 THEN RemoveHandlers(txt, i + HandlerAt(txt, i))
    ELSE <<txt[i]>> \o RemoveHandlers(txt, i + 1)

\* re.sub(r'\s+', ' ', text), from position i
RECURSIVE CollapseSpaces(_, _)
CollapseSpaces(txt, i) ==
    IF i > Len(txt) THEN <<>>
    ELSE IF txt[i] = " "
    THEN <<" ">> \o CollapseSpaces(txt, i + RunFrom(txt, i, {" "}))
    ELSE <<txt[i]>> \o CollapseSpaces(txt, i + 1)

\* text[:stop]
SliceTo(txt, stop) ==
    IF stop >= 0 THEN SubSeq(txt, 1, Min(stop, Len(txt)))
    ELSE SubSeq(txt, 1, Max(Len(txt) + stop, 0))

\* if max_length and len(text) > max_length: text = text[:max_length-3] + "..."
Truncate(txt, max_length) ==
    IF max_length # 0 /\ Len(txt) > max_length
    THEN SliceTo(txt, max_length - 3) \o <<".", ".", ".">>
    ELSE txt

sanitize_text(txt, max_length) ==
    Truncate(Strip(CollapseSpaces(
                 RemoveHandlers(bleach_clean(html_escape(RemoveNul(txt))), 1), 1)),
             max_length)

\* sanitize_text(text, max_length) is called, once in a run, and returns
SanitizeText(p, txt, max_length) ==
    /\ scen = "sanitize"
    /\ proc[p].api = "none"
    /\ proc' = [proc EXCEPT ![p] =
                   [Leave(Enter("sanitize_text", ""), "returned")
                       EXCEPT !.field = txt, !.amount = max_length,
                              !.value = PyStr(sanitize_text(txt, max_length))]]
    /\ UNCHANGED <<store, now, platform_limits, called>>
    /\ RLFrame

SanitizeInit ==
    /\ store = NewClient(FALSE)
    /\ now = 0
    /\ conn = ConnIdle
    /\ last = NoCall
    /\ hist = [k \in StoreKeys |-> NoSet]
    /\ scen = "sanitize"
    /\ platform_limits = DefaultLimits
    /\ proc = [p \in {"c1"} |-> ProcIdle]
    /\ called = <<>>
    /\ target = ""
    /\ SysOff

SanitizeNext ==
    \E p \in DOMAIN proc, txt \in Texts, max_length \in 1..MaxLength :
        SanitizeText(p, txt, max_length)

SpecSanitize == SanitizeInit /\ [][SanitizeNext]_vars

\* C27: for every text and every positive max_length, sanitize_text returns
\* a text of at most max_length characters
C27_Bounded ==
    \A p \in DOMAIN proc :
        Finished(p, "sanitize_text") => Len(proc[p].value.s) <= proc[p].amount

(***************************************************************************)
(* Properties of acknowledged writes.                                      *)
(***************************************************************************)
\* the step is a get(k) on the Connected store
GetsConnected == last' # last /\ last'.op = "get" /\ last'.conn

\* the last call on the key of the get was a set that returned True, on the
\* Connected store, of an int and without expiry (an int is read back as
\* the value written, whichever backend holds it)
AcknowledgedSet(h) ==
    h.op = "set" /\ h.conn /\ h.expire = NoExpiry /\ h.v.t = "int"

\* the call before the get was a delete of its key that returned True
AcknowledgedDelete ==
    /\ last.op = "delete"
    /\ last.key = last'.key
    /\ last.conn
    /\ last.ret = PyBool(TRUE)

\* C28: while the store is Connected and the primary fails now and then, a
\* get(k) after a set(k, v) that returned True (no set, delete or expiry of
\* k in between) returns v, and a get(k) after a delete(k) that returned
\* True returns None
C28_NoLostWrite ==
    [][GetsConnected =>
          /\ AcknowledgedSet(hist'[last'.key]) => last'.ret = hist'[last'.key].v
          /\ AcknowledgedDelete => last'.ret = PyNone]_vars

(***************************************************************************)
(* Concurrent callers that record their usage through the limiter: through *)
(* execute_with_rate_limit, or through a social client's post operation,   *)
(* which calls check_platform_rate_limit and, once the platform has        *)
(* accepted the post, increment_platform_usage.  The hourly counter is     *)
(* close to its limit when the run begins.                                 *)
(***************************************************************************)
\* how many posts short of the hourly limit the counter is at the start
Headroom == {1, 2}

\* execute_with_rate_limit(platform, "post", func) is called
RacingExecuteCall(p, platform) ==
    /\ scen = "racing"
    /\ IsIdle(p)
    /\ Step(p, Invoking(BeginAllowed(store,
                                     [Enter("execute_with_rate_limit", platform)
                                         EXCEPT !.entry = Counts(store, platform, now)],
                                     platform_limits, now)))
    /\ UNCHANGED <<now, platform_limits, called>>
    /\ RLFrame

\* the client's post operation is called: check_platform_rate_limit awaits
\* is_action_allowed
RacingPostCall(p, platform) ==
    /\ scen = "racing"
    /\ IsIdle(p)
    /\ Step(p, Invoking(BeginAllowed(store, Enter("post", platform),
                                     platform_limits, now)))
    /\ UNCHANGED <<now, platform_limits, called>>
    /\ RLFrame

RacingInit ==
    /\ now = CHOOSE t \in Instants : \A u \in Instants : t <= u
    /\ target = "twitter"
    /\ \E up \in BOOLEAN, room \in Headroom :
          store = Seeded(connect(NewClient(up), up).S, target, "hourly",
                         LimitOf(DefaultLimits, target, "hourly") - room, now)
    /\ conn = ConnIdle
    /\ last = NoCall
    /\ hist = [k \in StoreKeys |-> NoSet]
    /\ scen = "racing"
    /\ platform_limits = DefaultLimits
    /\ proc = [p \in {"c1", "c2"} |-> ProcIdle]
    /\ called = <<>>
    /\ SysOff

RacingNext ==
    \/ \E p \in DOMAIN proc : RacingExecuteCall(p, target)
    \/ \E p \in DOMAIN proc : RacingPostCall(p, target)
    \/ \E p \in DOMAIN proc : ResumeCheck(p)
    \/ \E p \in DOMAIN proc, raised \in BOOLEAN : ResumeOp(p, raised)
    \/ \E p \in DOMAIN proc : ResumeRead(p)
    \/ \E p \in DOMAIN proc : ResumeIncr(p)
    \/ \E p \in DOMAIN proc : ResumeSet(p)

SpecRacing == RacingInit /\ [][RacingNext]_vars

\* C29: when all usage is recorded through execute_with_rate_limit or
\* through check_platform_rate_limit and increment_platform_usage, no
\* counter of a current bucket exceeds the limit configured for its period,
\* however the callers interleave
C29_WithinLimit ==
    \A i \in 1..Len(platform_limits[target]) :
        StoredCount(store,
                    _get_time_window_key(target, platform_limits[target][i].period,
                                         "post", now))
            <= platform_limits[target][i].limit

(***************************************************************************)
(* The data client the modules are bound to.  rate_limit.py and the        *)
(* collaborators import the name data_client from redis_client, which      *)
(* binds their own name to the instance created at import (store);         *)
(* init_data_client assigns the module global of redis_client              *)
(* (data_client) and connects the instance it created.                     *)
(***************************************************************************)

\* initialize() awaits init_data_client(config.REDIS_URL, ...): a new
\* instance is bound to redis_client.data_client and connect() makes its
\* first attempt
InitDataClient(url, up) ==
    /\ conn = ConnIdle
    /\ LET r == connect(NewClient(url), up) IN
       /\ data_client' = r.S
       /\ conn' = [pc     |-> IF r.outcome = "sleep" THEN "sleeping" ELSE "idle",
                   tries  |-> IF r.tried THEN 1 ELSE 0,
                   sleeps |-> IF r.outcome = "sleep" THEN <<r.delay>> ELSE <<>>,
                   result |-> r.outcome]
    /\ UNCHANGED <<store, now, last, hist, scen, platform_limits, proc, called,
                   target, sys_vars>>

\* asyncio.sleep returns and connect() calls itself on the new instance
InitDataClientRetry(up) ==
    /\ conn.pc = "sleeping"
    /\ LET r == connect(data_client, up) IN
       /\ data_client' = r.S
       /\ conn' = [pc     |-> IF r.outcome = "sleep" THEN "sleeping" ELSE "idle",
                   tries  |-> conn.tries + 1,
                   sleeps |-> IF r.outcome = "sleep"
                              THEN Append(conn.sleeps, r.delay) ELSE conn.sleeps,
                   result |-> r.outcome]
    /\ UNCHANGED <<store, now, last, hist, scen, platform_limits, proc, called,
                   target, sys_vars>>

\* init_data_client has returned: the loops that call the limiter start
\* after it
Initialized == conn.pc = "idle" /\ conn.result # "none"

\* the modules as imported: both names are bound to the instance created at
\* import, and initialize() has not run
BindingInit ==
    /\ store = NewClient(FALSE)
    /\ now = CHOOSE t \in Instants : \A u \in Instants : t <= u
    /\ conn = ConnIdle
    /\ last = NoCall
    /\ hist = [k \in StoreKeys |-> NoSet]
    /\ scen = "counting"
    /\ platform_limits = DefaultLimits
    /\ proc = [p \in {"c1"} |-> ProcIdle]
    /\ called = <<>>
    /\ target = "twitter"
    /\ SysOff

\* initialize() first, then the limiter's calls
BindingNext ==
    \/ \E url \in BOOLEAN, up \in BOOLEAN : InitDataClient(url, up)
    \/ \E up \in BOOLEAN : InitDataClientRetry(up)
    \/ \E p \in DOMAIN proc, period \in CheckPeriods :
          Initialized /\ CheckRateLimitCall(p, target, period)
    \/ \E p \in DOMAIN proc : ResumeCheck(p)
    \/ \E p \in DOMAIN proc, period \in CountPeriods :
          Initialized /\ IncrementUsageCall(p, target, period, 1)
    \/ \E p \in DOMAIN proc : ResumeRead(p)
    \/ \E p \in DOMAIN proc : ResumeIncr(p)
    \/ \E p \in DOMAIN proc : ResumeSet(p)
    \/ Initialized /\ Advance

SpecBinding == BindingInit /\ [][BindingNext]_vars

\* C30: after initialize() has connected the store to a reachable primary
\* through init_data_client, the instance the limiter reads and writes is
\* the connected one: every counter a finished increment_usage wrote is in
\* the primary of the connected instance
C30_TargetsPrimary ==
    (Initialized /\ Connected(data_client)) =>
        \A p \in DOMAIN proc :
            Finished(p, "increment_usage") =>
                /\ store = data_client
                /\ \A i \in 1..Len(proc[p].used) :
                      proc[p].used[i].key \in DOMAIN data_client.redis

====
